---- MODULE Spec2Model ----
(***************************************************************************)
(* A model of moka's report engine: the coverage tree and the test outcome *)
(* tree (build, aggregate), the range compressor, the percentage           *)
(* computation and the exit-code logic of `moka test` / `moka coverage`.   *)
(*                                                                         *)
(* JavaScript strings are modelled as sequences of one-character strings   *)
(* ("a/b" is <<"a", "/", "b">>), so that splitting, joining and number     *)
(* formatting are computed and not assumed.  JavaScript numbers that go    *)
(* through a division are modelled as IEEE-754 doubles (53-bit mantissa).  *)
(***************************************************************************)
EXTENDS Integers, Sequences, FiniteSets, TLC

VARIABLES
    pc,        \* position of the modelled call: "start", then the phase reached
    covered,   \* pctInt: the covered counter
    missed,    \* pctInt: the missed counter
    pcts,      \* pctInt: the percentages computed by the three copies of the formula
    lines,     \* compressLines: the input list
    text,      \* compressLines: the strings returned by the two copies
    pkgs,      \* coverage report: the <package> entries handed to the builder
    root,      \* coverage tree: what buildCoverageTreeFromJaCoCo returned
    dir,       \* test results: the directory handed to buildTestsTree
    tests,     \* outcome tree: what buildTestsTree returned
    summary,   \* test results: what parseJUnitDir returned
    argv,      \* commands: the arguments of the command line
    world,     \* commands: what the command finds (exit codes, the report)
    outcome,   \* commands: what the command returned and wrote to stderr
    printOpts, \* printers: the options handed to the printer
    stdout,    \* printers: the lines written
    runs,      \* how many times the aggregator has run over the built tree
    spinners,  \* spinner: the spinner object of each command, or none
    intervals, \* spinner: the interval timers registered with the event loop
    trace,     \* spinner: the calls made to the spinners and the ticks fired so far
    caller,    \* spinner: who drives the spinner, and how its runCmd calls end
    runOpts,   \* runCmd: the options of the call
    proc,      \* runCmd: the child process (what it has left to write, its exit)
    pipes,     \* runCmd: the chunks written by the child and not yet read
    consumes,  \* runCmd: the state of the promise of each consumer
    written,   \* runCmd: what has reached the parent's stdout and stderr
    result     \* runCmd: the value the call resolved with, or none

pctVars   == <<covered, missed, pcts>>
linesVars == <<lines, text>>
covVars   == <<pkgs, root>>
testVars  == <<dir, tests, summary>>
cmdVars   == <<argv, world, outcome>>
printVars == <<printOpts, stdout>>
spinVars  == <<spinners, intervals, trace, caller>>
runVars   == <<runOpts, proc, pipes, consumes, written, result>>
vars      == <<pc, pctVars, linesVars, covVars, testVars, cmdVars, printVars, runs,
               spinVars, runVars>>

(***************************************************************************)
(* Bounds of the model.                                                    *)
(***************************************************************************)
MaxCount == 23     \* counters of the percentage computation range over 0..MaxCount
MaxLine  == 11     \* line numbers given to compressLines range up to MaxLine
NegLines == 1      \* ... and down to -NegLines
MaxPkgs  == 2      \* <package> entries of a coverage report
MaxTestFiles == 2  \* entries of a test results directory
MaxRuns  == 2      \* runs of an aggregator over one tree
MaxExit  == 3      \* exit codes of the Gradle test run range over 0..MaxExit
MaxCalls == 4      \* calls made to one spinner by a free caller
MaxTicks == 2      \* firings of the spinner's interval timer
MaxChunks == 2     \* chunks the child process writes to each of its streams

(***************************************************************************)
(* Strings.                                                                *)
(***************************************************************************)
DigitChar == <<"0", "1", "2", "3", "4", "5", "6", "7", "8", "9">>

RECURSIVE NatToString(_)
NatToString(n) ==
    IF n < 10 THEN <<DigitChar[n + 1]>>
    ELSE NatToString(n \div 10) \o <<DigitChar[(n % 10) + 1]>>

\* `${n}` for an integer n
NumberToString(n) ==
    IF n < 0 THEN <<"-">> \o NatToString(0 - n) ELSE NatToString(n)

\* Array.prototype.join
RECURSIVE Join(_, _)
Join(strs, sep) ==
    IF Len(strs) = 0 THEN <<>>
    ELSE IF Len(strs) = 1 THEN strs[1]
    ELSE strs[1] \o sep \o Join(Tail(strs), sep)

\* the sequences of a sequence, one after the other
RECURSIVE Concat(_)
Concat(seqs) ==
    IF Len(seqs) = 0 THEN <<>> ELSE seqs[1] \o Concat(Tail(seqs))

\* String.prototype.split on a one-character separator
RECURSIVE SplitFrom(_, _, _, _, _)
SplitFrom(str, sep, i, cur, out) ==
    IF i > Len(str) THEN Append(out, cur)
    ELSE IF str[i] = sep THEN SplitFrom(str, sep, i + 1, <<>>, Append(out, cur))
    ELSE SplitFrom(str, sep, i + 1, Append(cur, str[i]), out)

Split(str, sep) == SplitFrom(str, sep, 1, <<>>, <<>>)

(***************************************************************************)
(* IEEE-754 double arithmetic, as far as (covered / total) * 100 and       *)
(* Math.round need it.  A positive double is [h, m, l, e]: its 53-bit      *)
(* mantissa is h * 2^34 + m * 2^16 + l with 2^18 <= h < 2^19, m < 2^18 and *)
(* l < 2^16 (three limbs, so that every intermediate value fits a 32-bit   *)
(* integer), and e is the exponent of the mantissa's leading bit.  Zero is *)
(* the record with h = 0.  The division is exact for 0 < t < 8192.         *)
(***************************************************************************)
B16 == 2^16
B18 == 2^18
B19 == 2^19

DoubleZero == [h |-> 0, m |-> 0, l |-> 0, e |-> 0]

\* the next double above x
DoubleSucc(x) ==
    IF x.l + 1 < B16 THEN [x EXCEPT !.l = x.l + 1]
    ELSE IF x.m + 1 < B18 THEN [x EXCEPT !.l = 0, !.m = x.m + 1]
    ELSE IF x.h + 1 < B19 THEN [x EXCEPT !.l = 0, !.m = 0, !.h = x.h + 1]
    ELSE [h |-> B18, m |-> 0, l |-> 0, e |-> x.e + 1]

\* Round to nearest, ties to even: x is the exact value cut to 53 bits, guard
\* the first bit cut off, rest whether a non-zero bit follows it.
RoundToDouble(x, guard, rest) ==
    IF guard = 1 /\ (rest \/ (x.l % 2) = 1) THEN DoubleSucc(x) ELSE x

\* doublings of r until t <= r < 2t
RECURSIVE Normalise(_, _, _)
Normalise(r, t, k) ==
    IF r >= t THEN [r |-> r, k |-> k] ELSE Normalise(2 * r, t, k + 1)

\* c / t in double arithmetic, for integers 0 <= c and 0 < t: long division,
\* 18 quotient bits at a time
DoubleDiv(c, t) ==
    IF c = 0 THEN DoubleZero
    ELSE LET n  == Normalise(c, t, 0)
             r1 == n.r - t
             d1 == (r1 * B18) \div t
             r2 == (r1 * B18) % t
             d2 == (r2 * B18) \div t
             r3 == (r2 * B18) % t
             d3 == (r3 * B18) \div t
             r4 == (r3 * B18) % t
         IN  RoundToDouble([h |-> B18 + d1, m |-> d2, l |-> d3 \div 4,
                            e |-> 0 - n.k],
                           (d3 \div 2) % 2,
                           (d3 % 2) = 1 \/ r4 # 0)

\* x * 100 in double arithmetic: the exact 60-bit product, cut by s bits
DoubleTimes100(x) ==
    IF x.h = 0 THEN DoubleZero
    ELSE LET pl == 100 * x.l
             pm == (100 * x.m) + (pl \div B16)
             ph == (100 * x.h) + (pm \div B18)
             l1 == pl % B16
             m1 == pm % B18
             s  == IF ph >= 2^25 THEN 7 ELSE 6
             cut == l1 % (2^s)
         IN  RoundToDouble([h |-> ph \div (2^s),
                            m |-> ((ph % (2^s)) * 2^(18 - s)) + (m1 \div (2^s)),
                            l |-> ((m1 % (2^s)) * 2^(16 - s)) + (l1 \div (2^s)),
                            e |-> x.e + s],
                           cut \div (2^(s - 1)),
                           (cut % (2^(s - 1))) # 0)

\* Math.round of a double 0 <= x < 2^18: the nearest integer, ties towards
\* +infinity, which is floor(x) plus the bit of weight 1/2
MathRound(x) ==
    IF x.h = 0 \/ x.e < 0 - 1 THEN 0
    ELSE (x.h \div 2^(18 - x.e)) + ((x.h \div 2^(17 - x.e)) % 2)

(***************************************************************************)
(* Percentages: the renderer's pctInt, the legacy renderer's pct and the   *)
(* inline computation of cmdCoverage.                                      *)
(***************************************************************************)
pctInt(cov, miss) ==
    LET total == cov + miss
    IN  IF total = 0 THEN 0 ELSE MathRound(DoubleTimes100(DoubleDiv(cov, total)))

pct(cov, miss) ==
    LET total == cov + miss
    IN  IF total = 0 THEN 0 ELSE MathRound(DoubleTimes100(DoubleDiv(cov, total)))

\* cmdCoverage's lPct / fPct, given the root's two counters
thresholdPct(cov, miss) ==
    IF cov + miss = 0 THEN 0
    ELSE MathRound(DoubleTimes100(DoubleDiv(cov, cov + miss)))

(***************************************************************************)
(* The range compressor (two textually separate copies in the source).     *)
(***************************************************************************)
\* mutant: a run of one line is rendered as a range too
RangeToken_AlwaysRange(s, e) ==
    NumberToString(s) \o <<"-">> \o NumberToString(e)

\* s === e ? `${s}` : `${s}-${e}`
RangeToken(s, e) ==
    IF s = e THEN NumberToString(s)
    ELSE NumberToString(s) \o <<"-">> \o NumberToString(e)

RECURSIVE compressLoop(_, _, _, _, _)
compressLoop(ls, i, s, e, out) ==
    IF i > Len(ls) THEN [s |-> s, e |-> e, out |-> out]
    ELSE LET v == ls[i]
         IN  IF v = e + 1 THEN compressLoop(ls, i + 1, s, v, out)
             ELSE compressLoop(ls, i + 1, v, v, Append(out, RangeToken(s, e)))

\* mutant: the run that is open when the loop ends is not pushed
compressLines_NoFinalPush(ls) ==
    IF Len(ls) = 0 THEN <<>>
    ELSE Join(compressLoop(ls, 2, ls[1], ls[1], <<>>).out, <<",">>)

compressLines(ls) ==
    IF Len(ls) = 0 THEN <<>>
    ELSE LET r == compressLoop(ls, 2, ls[1], ls[1], <<>>)
         IN  Join(Append(r.out, RangeToken(r.s, r.e)), <<",">>)

RECURSIVE printTreeCompressLoop(_, _, _, _, _)
printTreeCompressLoop(ls, i, start, end, ranges) ==
    IF i > Len(ls) THEN [start |-> start, end |-> end, ranges |-> ranges]
    ELSE IF ls[i] = end + 1
         THEN printTreeCompressLoop(ls, i + 1, start, ls[i], ranges)
         ELSE printTreeCompressLoop(ls, i + 1, ls[i], ls[i],
                                    Append(ranges, RangeToken(start, end)))

printTreeCompressLines(ls) ==
    IF Len(ls) = 0 THEN <<>>
    ELSE LET r == printTreeCompressLoop(ls, 2, ls[1], ls[1], <<>>)
         IN  Join(Append(r.ranges, RangeToken(r.start, r.end)), <<",">>)

(***************************************************************************)
(* JavaScript values.                                                      *)
(***************************************************************************)
\* rec.f ?? 0, an optional property being a field the record may lack
Nullish(rec, f) == IF f \in DOMAIN rec THEN rec[f] ELSE 0

\* rec.f = v
SetField(rec, f, v) ==
    [g \in DOMAIN rec \cup {f} |-> IF g = f THEN v ELSE rec[g]]

\* String.prototype.replace(/c/g, d)
ReplaceAll(str, c, d) == [i \in 1..Len(str) |-> IF str[i] = c THEN d ELSE str[i]]

\* Array.prototype.find on the counters of an entry: the first of the type
RECURSIVE FindCounter(_, _, _)
FindCounter(counters, type, i) ==
    IF i > Len(counters) THEN [type |-> type]
    ELSE IF counters[i].type = type THEN counters[i]
    ELSE FindCounter(counters, type, i + 1)

\* Array.prototype.filter: the elements at the indices kept, in their order
Filter(seq, kept) ==
    LET nth(k) == CHOOSE i \in kept : Cardinality({j \in kept : j < i}) = k - 1
    IN  [k \in 1..Cardinality(kept) |-> seq[nth(k)]]

(***************************************************************************)
(* String.prototype.localeCompare under the default (root) collation, on   *)
(* the characters the model's names are made of: the strings are compared  *)
(* by their letters first, whatever the case, and then by case, lower case *)
(* first.                                                                  *)
(***************************************************************************)
CollationOrder == <<".", "/", "a", "b", "k", "n", "o", "u", "w">>

LowerCase(ch) == IF ch = "A" THEN "a" ELSE IF ch = "B" THEN "b" ELSE ch

PrimaryWeight(ch) ==
    CHOOSE k \in 1..Len(CollationOrder) : CollationOrder[k] = LowerCase(ch)

TertiaryWeight(ch) == IF ch = LowerCase(ch) THEN 0 ELSE 1

\* -1, 0 or 1: two sequences of weights compared lexicographically
RECURSIVE CompareWeights(_, _, _)
CompareWeights(a, b, i) ==
    IF i > Len(a) /\ i > Len(b) THEN 0
    ELSE IF i > Len(a) THEN 0 - 1
    ELSE IF i > Len(b) THEN 1
    ELSE IF a[i] < b[i] THEN 0 - 1
    ELSE IF a[i] > b[i] THEN 1
    ELSE CompareWeights(a, b, i + 1)

localeCompare(a, b) ==
    LET primary == CompareWeights([i \in 1..Len(a) |-> PrimaryWeight(a[i])],
                                  [i \in 1..Len(b) |-> PrimaryWeight(b[i])], 1)
    IN  IF primary # 0 THEN primary
        ELSE CompareWeights([i \in 1..Len(a) |-> TertiaryWeight(a[i])],
                            [i \in 1..Len(b) |-> TertiaryWeight(b[i])], 1)

\* Array.prototype.sort (stable), cmp[i][j] being what the comparison
\* function returns for seq[i] and seq[j]: an element goes after the elements
\* that compare smaller and after the equal ones that stood before it
Sort(seq, cmp) ==
    LET before(i) == {j \in 1..Len(seq) :
                         cmp[j][i] < 0 \/ (cmp[j][i] = 0 /\ j < i)}
        at(k) == CHOOSE i \in 1..Len(seq) : Cardinality(before(i)) = k - 1
    IN  [k \in 1..Len(seq) |-> seq[at(k)]]

\* the comparisons of the elements of a list by (a, b) => a - b
Numerically(seq) ==
    [i \in 1..Len(seq) |-> [j \in 1..Len(seq) |-> seq[i] - seq[j]]]

\* ... by (a, b) => a.name.localeCompare(b.name)
ByName(seq) ==
    [i \in 1..Len(seq) |->
        [j \in 1..Len(seq) |-> localeCompare(seq[i].name, seq[j].name)]]

\* ... by (a, b) => a[0].localeCompare(b[0]), on the keys of a Map's entries
ByKey(seq) ==
    [i \in 1..Len(seq) |->
        [j \in 1..Len(seq) |-> localeCompare(seq[i], seq[j])]]

(***************************************************************************)
(* The coverage tree.  A tree is a function from the paths of its nodes    *)
(* (the sequence of children keys from the root, <<>> for the root) to     *)
(* PackageNode records; a node's children field is the sequence of the     *)
(* keys of its children Map, in the Map's iteration order.  The optional   *)
(* fields linesCovered, linesMissed, funcsCovered and funcsMissed are      *)
(* fields the record has once the aggregator has written them.  The        *)
(* numeric attributes of the report are taken as already decoded integers. *)
(***************************************************************************)
NullTree == <<>>

Metrics == {"linesCovered", "linesMissed", "funcsCovered", "funcsMissed"}

RootNode ==
    [name |-> <<"A", "l", "l", " ", "f", "i", "l", "e", "s">>,
     fullName |-> <<>>, sourcefile |-> <<>>, children |-> <<>>]

\* the path loop of the builder: creates the missing nodes along parts
RECURSIVE WalkParts(_, _, _, _, _)
WalkParts(tree, parts, i, cur, path) ==
    IF i > Len(parts) THEN [tree |-> tree, cur |-> cur]
    ELSE LET part  == parts[i]
             path1 == IF Len(path) > 0 THEN path \o <<"/">> \o part ELSE part
             child == Append(cur, part)
             tree1 ==
                 IF child \in DOMAIN tree THEN tree
                 ELSE [tree EXCEPT ![cur].children = Append(@, part)]
                      @@ (child :> [name |-> part, fullName |-> path1,
                                    sourcefile |-> <<>>, children |-> <<>>])
         IN  WalkParts(tree1, parts, i + 1, child, path1)

\* a <sourcefile> entry as a SourceFile
SourceFileOf(sf) ==
    LET lineCounter   == FindCounter(sf.counter, "LINE", 1)
        methodCounter == FindCounter(sf.counter, "METHOD", 1)
        uncovered(l)  == Nullish(l, "mi") + Nullish(l, "mb") > 0
                         /\ Nullish(l, "ci") + Nullish(l, "cb") = 0
        kept          == Filter(sf.line,
                             {i \in 1..Len(sf.line) : uncovered(sf.line[i])})
        numbers       == [k \in 1..Len(kept) |-> kept[k].nr]
    IN  [name |-> IF "name" \in DOMAIN sf THEN sf.name
                  ELSE <<"u", "n", "k", "n", "o", "w", "n">>,
         linesCovered |-> Nullish(lineCounter, "covered"),
         linesMissed  |-> Nullish(lineCounter, "missed"),
         funcsCovered |-> Nullish(methodCounter, "covered"),
         funcsMissed  |-> Nullish(methodCounter, "missed"),
         uncoveredLines |-> Sort(numbers, Numerically(numbers))]

\* the fallback of the builder: the <class> counters summed per source file
\* name, in the order the names are first met
RECURSIVE GroupClasses(_, _, _)
GroupClasses(classes, i, grouped) ==
    IF i > Len(classes) THEN grouped
    ELSE LET c      == classes[i]
             sfname == IF "sourcefilename" \in DOMAIN c THEN c.sourcefilename
                       ELSE <<"u", "n", "k", "n", "o", "w", "n">>
             lineCounter   == FindCounter(c.counter, "LINE", 1)
             methodCounter == FindCounter(c.counter, "METHOD", 1)
             at == {k \in 1..Len(grouped) : grouped[k].name = sfname}
             g  == IF at = {}
                   THEN [name |-> sfname, linesCovered |-> 0, linesMissed |-> 0,
                         funcsCovered |-> 0, funcsMissed |-> 0,
                         uncoveredLines |-> <<>>]
                   ELSE grouped[CHOOSE k \in at : TRUE]
             g1 == [g EXCEPT
                      !.linesCovered = @ + Nullish(lineCounter, "covered"),
                      !.linesMissed  = @ + Nullish(lineCounter, "missed"),
                      !.funcsCovered = @ + Nullish(methodCounter, "covered"),
                      !.funcsMissed  = @ + Nullish(methodCounter, "missed")]
         IN  GroupClasses(classes, i + 1,
                 IF at = {} THEN Append(grouped, g1)
                 ELSE [grouped EXCEPT ![CHOOSE k \in at : TRUE] = g1])

\* the source files of a package entry: its <sourcefile> entries, or else
\* its <class> entries grouped
FilesOf(pkg) ==
    IF Len(pkg.sourcefile) > 0
    THEN [k \in 1..Len(pkg.sourcefile) |-> SourceFileOf(pkg.sourcefile[k])]
    ELSE GroupClasses(pkg.class, 1, <<>>)

\* mutant: the files of a later entry replace those the node already has
PushFiles_Overwrite(tree, cur, files) ==
    [tree EXCEPT ![cur].sourcefile = Sort(files, ByName(files))]

\* cur.sourcefile.push(...) for each file, then cur.sourcefile.sort(by name)
PushFiles(tree, cur, files) ==
    [tree EXCEPT ![cur].sourcefile = Sort(@ \o files, ByName(@ \o files))]

AttachFiles(walked, files) == PushFiles(walked.tree, walked.cur, files)

\* the path segments of a package name
PartsOf(pkgName) == IF Len(pkgName) > 0 THEN Split(pkgName, "/") ELSE <<>>

\* one turn of the builder's loop over the packages
AddPackage(tree, pkg) ==
    AttachFiles(
        WalkParts(tree,
                  PartsOf(ReplaceAll(IF "name" \in DOMAIN pkg THEN pkg.name
                                     ELSE <<>>, ".", "/")),
                  1, <<>>, <<>>),
        FilesOf(pkg))

RECURSIVE aggregateCoverage(_, _)

\* the sums of the four counters over the records of a list
RECURSIVE SumFiles(_, _, _)
SumFiles(files, i, acc) ==
    IF i > Len(files) THEN acc
    ELSE SumFiles(files, i + 1,
                  [m \in Metrics |-> acc[m] + files[i][m]])

\* the aggregator's loop over the children: each child is aggregated, then
\* its four counters are added
RECURSIVE AggregateChildren(_, _, _, _)

AddChild(tree1, path, i, acc) ==
    AggregateChildren(tree1, path, i + 1,
        [m \in Metrics |->
            acc[m] + Nullish(tree1[Append(path, tree1[path].children[i])], m)])

AggregateChildren(tree, path, i, acc) ==
    IF i > Len(tree[path].children) THEN [tree |-> tree, acc |-> acc]
    ELSE AddChild(aggregateCoverage(tree, Append(path, tree[path].children[i])),
                  path, i, acc)

\* the four assignments and the re-creation of the children Map in key order
WriteSums(tree, path, sums) ==
    [tree EXCEPT ![path] =
        [f \in DOMAIN @ \cup Metrics |->
            IF f \in Metrics THEN sums[f]
            ELSE IF f = "children" THEN Sort(@.children, ByKey(@.children))
            ELSE @[f]]]

\* mutant: the source files of the node are left out of its sums
AddFiles_NoFiles(kids, path) == WriteSums(kids.tree, path, kids.acc)

\* the aggregator's loop over the source files, after the one over the children
AddFiles(kids, path) ==
    WriteSums(kids.tree, path,
              SumFiles(kids.tree[path].sourcefile, 1, kids.acc))

\* mutant: the sums start from what the node already holds (+=)
aggregateCoverage_Accumulating(tree, path) ==
    AddFiles(AggregateChildren(tree, path, 1,
                 [m \in Metrics |-> Nullish(tree[path], m)]),
             path)

aggregateCoverage(tree, path) ==
    AddFiles(AggregateChildren(tree, path, 1, [m \in Metrics |-> 0]), path)

RECURSIVE AddPackages(_, _, _)
AddPackages(tree, ps, i) ==
    IF i > Len(ps) THEN tree
    ELSE AddPackages(AddPackage(tree, ps[i]), ps, i + 1)

\* buildCoverageTreeFromJaCoCo on a report that exists and holds the packages
\* ps (the missing file is the caller's case)
buildCoverageTreeFromJaCoCo(ps) ==
    IF Len(ps) = 0 THEN NullTree
    ELSE aggregateCoverage(AddPackages((<<>> :> RootNode), ps, 1), <<>>)

(***************************************************************************)
(* The legacy builder buildPackageTree and its aggregator, on the same     *)
(* trees as the coverage tree above.  The package names are split at "/"   *)
(* as they stand, the source files of an entry are assigned to the node,   *)
(* and the aggregator leaves the order of the children alone.              *)
(***************************************************************************)
\* the mapping of a <sourcefile> entry: the uncovered lines in document order
LegacySourceFileOf(sf) ==
    LET lineCounter   == FindCounter(sf.counter, "LINE", 1)
        methodCounter == FindCounter(sf.counter, "METHOD", 1)
        kept == Filter(sf.line,
                       {i \in 1..Len(sf.line) :
                          /\ sf.line[i].mi + sf.line[i].mb > 0
                          /\ sf.line[i].ci + sf.line[i].cb = 0})
    IN  [name |-> sf.name,
         linesCovered |-> Nullish(lineCounter, "covered"),
         linesMissed  |-> Nullish(lineCounter, "missed"),
         funcsCovered |-> Nullish(methodCounter, "covered"),
         funcsMissed  |-> Nullish(methodCounter, "missed"),
         uncoveredLines |-> [k \in 1..Len(kept) |-> kept[k].nr]]

\* if (pkg.sourcefile) current.sourcefile = pkg.sourcefile.map(...)
LegacyAttach(walked, pkg) ==
    IF Len(pkg.sourcefile) = 0 THEN walked.tree
    ELSE [walked.tree EXCEPT ![walked.cur].sourcefile =
             [k \in 1..Len(pkg.sourcefile) |->
                 LegacySourceFileOf(pkg.sourcefile[k])]]

\* one turn of the loop over the packages
LegacyAddPackage(tree, pkg) ==
    LegacyAttach(WalkParts(tree, Split(pkg.name, "/"), 1, <<>>, <<>>), pkg)

RECURSIVE LegacyAddPackages(_, _, _)
LegacyAddPackages(tree, ps, i) ==
    IF i > Len(ps) THEN tree
    ELSE LegacyAddPackages(LegacyAddPackage(tree, ps[i]), ps, i + 1)

RECURSIVE legacyAggregateCoverage(_, _)

RECURSIVE LegacyAggregateChildren(_, _, _, _)

LegacyAddChild(tree1, path, i, acc) ==
    LegacyAggregateChildren(tree1, path, i + 1,
        [m \in Metrics |->
            acc[m] + Nullish(tree1[Append(path, tree1[path].children[i])], m)])

LegacyAggregateChildren(tree, path, i, acc) ==
    IF i > Len(tree[path].children) THEN [tree |-> tree, acc |-> acc]
    ELSE LegacyAddChild(
             legacyAggregateCoverage(tree, Append(path, tree[path].children[i])),
             path, i, acc)

\* the loop over the source files and the four assignments
LegacyAddFiles(kids, path) ==
    [kids.tree EXCEPT ![path] =
        [f \in DOMAIN @ \cup Metrics |->
            IF f \in Metrics
            THEN SumFiles(kids.tree[path].sourcefile, 1, kids.acc)[f]
            ELSE @[f]]]

\* aggregateCoverage of the legacy builder
legacyAggregateCoverage(tree, path) ==
    LegacyAddFiles(
        LegacyAggregateChildren(tree, path, 1, [m \in Metrics |-> 0]), path)

buildPackageTree(packages) ==
    legacyAggregateCoverage(
        LegacyAddPackages((<<>> :> RootNode), packages, 1), <<>>)

(***************************************************************************)
(* The test outcome tree.  A parsed XML element is a JavaScript value: a   *)
(* string (an element without attributes; the empty element is the empty   *)
(* string) or an object.  The attributes of <testsuite> and <testcase> are *)
(* strings, an attribute the element lacks being a field the record lacks. *)
(* The tree is a function from paths to TestPackageNode records; children  *)
(* is the sequence of the keys of the children Map and classes the         *)
(* sequence of the values of the classes Map, both in iteration order.     *)
(***************************************************************************)
Undefined == [kind |-> "undefined"]

Str(chars) == [kind |-> "string", value |-> chars]

\* rec.f, undefined when the property is missing
Get(rec, f) == IF f \in DOMAIN rec THEN rec[f] ELSE Undefined

\* ToBoolean of an element value
Truthy(v) ==
    /\ v.kind # "undefined"
    /\ ~(v.kind = "string" /\ v.value = <<>>)

\* an attribute that is present and not the empty string
HasText(rec, f) == f \in DOMAIN rec /\ Len(rec[f]) > 0

Statuses == {"passed", "failed", "skipped"}

ZeroCounts == [s \in Statuses |-> 0]

TestRoot ==
    [name |-> <<"A", "l", "l", " ", "t", "e", "s", "t", "s">>,
     fullName |-> <<>>, children |-> <<>>, classes |-> <<>>,
     counts |-> ZeroCounts, durationMs |-> 0]

normalizeSuites(data) ==
    IF "testsuite" \in DOMAIN data THEN <<data.testsuite>>
    ELSE IF "testsuites" \in DOMAIN data THEN data.testsuites
    ELSE <<>>

normalizeCases(suite) ==
    IF "testcase" \in DOMAIN suite THEN suite.testcase ELSE <<>>

\* String.prototype.lastIndexOf, counted from 1; 0 when there is none
lastIndexOf(str, ch) ==
    IF \E i \in 1..Len(str) : str[i] = ch
    THEN CHOOSE i \in 1..Len(str) :
            str[i] = ch /\ \A j \in (i + 1)..Len(str) : str[j] # ch
    ELSE 0

\* pkgStr.split(".").filter(Boolean)
NonEmptyParts(parts) == Filter(parts, {i \in 1..Len(parts) : Len(parts[i]) > 0})

SplitAt(classname, lastDot) ==
    IF lastDot = 0
    THEN [pkgPath |-> <<>>, className |-> classname, fullName |-> classname]
    ELSE [pkgPath |-> NonEmptyParts(Split(SubSeq(classname, 1, lastDot - 1), ".")),
          className |-> SubSeq(classname, lastDot + 1, Len(classname)),
          fullName |-> classname]

splitClassName(classname) == SplitAt(classname, lastIndexOf(classname, "."))

\* tc.failure || tc.error
FailureOf(tc) ==
    IF Truthy(Get(tc, "failure")) THEN tc.failure ELSE Get(tc, "error")

classify(tc) ==
    IF Truthy(FailureOf(tc)) THEN "failed"
    ELSE IF Truthy(Get(tc, "skipped"))
            \/ ("status" \in DOMAIN tc
                /\ tc.status = <<"s", "k", "i", "p", "p", "e", "d">>)
    THEN "skipped"
    ELSE "passed"

\* the optional fields of a case node: f["@_message"], f["@_type"], and
\* f["#text"] when it is a string; none when f is falsy or a string
FailureFields(f) ==
    IF Truthy(f) /\ f.kind = "object"
    THEN [k \in {"message", "type", "text"} \cap DOMAIN f |-> f[k]]
    ELSE <<>>

FailureName(k) ==
    IF k = "message" THEN "failureMessage"
    ELSE IF k = "type" THEN "failureType" ELSE "failureDetail"

\* the value of a string of decimal digits
RECURSIVE DigitsValue(_)
DigitsValue(digits) ==
    IF Len(digits) = 0 THEN 0
    ELSE 10 * DigitsValue(SubSeq(digits, 1, Len(digits) - 1))
         + (CHOOSE k \in 0..9 : DigitChar[k + 1] = digits[Len(digits)])

IsDigits(str) ==
    Len(str) > 0 /\ \A i \in 1..Len(str) : \E k \in 1..10 : DigitChar[k] = str[i]

\* Math.round((+time || 0) * 1000) for a time attribute: digits with at most
\* three fraction digits (the product is then within a rounding error of the
\* integer returned); text that is not a number is NaN and counts as 0
Millis(parts) ==
    IF Len(parts) = 1 /\ IsDigits(parts[1]) THEN 1000 * DigitsValue(parts[1])
    ELSE IF Len(parts) = 2 /\ IsDigits(parts[1]) /\ IsDigits(parts[2])
            /\ Len(parts[2]) <= 3
    THEN 1000 * DigitsValue(parts[1])
         + DigitsValue(parts[2]) * 10 ^ (3 - Len(parts[2]))
    ELSE 0

DurationMs(tc) == IF "time" \in DOMAIN tc THEN Millis(Split(tc.time, ".")) ELSE 0

WithFailure(node, fields) ==
    [k \in DOMAIN node \cup {FailureName(g) : g \in DOMAIN fields} |->
        IF k \in DOMAIN node THEN node[k]
        ELSE fields[CHOOSE g \in DOMAIN fields : FailureName(g) = k]]

CaseNode(tc) ==
    WithFailure([name |-> IF "name" \in DOMAIN tc THEN tc.name
                          ELSE <<"u", "n", "k", "n", "o", "w", "n">>,
                 durationMs |-> DurationMs(tc),
                 status |-> classify(tc)],
                FailureFields(FailureOf(tc)))

\* tc["@_classname"] || s["@_name"] || "unknown.UnknownClass"
ClassNameOf(s, tc) ==
    IF HasText(tc, "classname") THEN tc.classname
    ELSE IF HasText(s, "name") THEN s.name
    ELSE <<"u", "n", "k", "n", "o", "w", "n", ".",
           "U", "n", "k", "n", "o", "w", "n", "C", "l", "a", "s", "s">>

NewPackage(tree, cur, part, full) ==
    IF Append(cur, part) \in DOMAIN tree THEN tree
    ELSE [tree EXCEPT ![cur].children = Append(@, part)]
         @@ (Append(cur, part) :>
                [name |-> part, fullName |-> full, children |-> <<>>,
                 classes |-> <<>>, counts |-> ZeroCounts, durationMs |-> 0])

RECURSIVE ensurePackage(_, _, _, _, _)
ensurePackage(tree, path, i, cur, full) ==
    IF i > Len(path) THEN [tree |-> tree, cur |-> cur]
    ELSE ensurePackage(
            NewPackage(tree, cur, path[i],
                       IF Len(full) > 0 THEN full \o <<".">> \o path[i]
                       ELSE path[i]),
            path, i + 1, Append(cur, path[i]),
            IF Len(full) > 0 THEN full \o <<".">> \o path[i] ELSE path[i])

\* the position of the class in the classes Map of the node; 0 if not there
ClassIndex(classes, className) ==
    IF \E i \in 1..Len(classes) : classes[i].name = className
    THEN CHOOSE i \in 1..Len(classes) : classes[i].name = className
    ELSE 0

\* mutant: a class entry is made for every case
ensureClass_AlwaysNew(tree, cur, className, fullName) ==
    [tree EXCEPT ![cur].classes =
        Append(@, [name |-> className, fullName |-> fullName,
                   cases |-> <<>>, counts |-> ZeroCounts,
                   durationMs |-> 0])]

ensureClass(tree, cur, className, fullName) ==
    IF ClassIndex(tree[cur].classes, className) # 0 THEN tree
    ELSE [tree EXCEPT ![cur].classes =
            Append(@, [name |-> className, fullName |-> fullName,
                       cases |-> <<>>, counts |-> ZeroCounts,
                       durationMs |-> 0])]

\* cls.cases.push(caseNode)
PushCase(tree, cur, className, caseNode) ==
    [tree EXCEPT ![cur].classes[ClassIndex(tree[cur].classes, className)].cases =
        Append(@, caseNode)]

AddToClass(ensured, split, caseNode) ==
    PushCase(ensureClass(ensured.tree, ensured.cur, split.className,
                         split.fullName),
             ensured.cur, split.className, caseNode)

AddSplitCase(tree, split, caseNode) ==
    AddToClass(ensurePackage(tree, split.pkgPath, 1, <<>>, <<>>), split, caseNode)

\* one turn of the loop over the cases of a suite
AddCase(tree, s, tc) ==
    AddSplitCase(tree, splitClassName(ClassNameOf(s, tc)), CaseNode(tc))

\* (the root is in every tree; asking for it first has TLC compute the tree
\* of the previous turn before the next one starts)
RECURSIVE AddCases(_, _, _, _)
AddCases(tree, s, cases, i) ==
    IF <<>> \notin DOMAIN tree \/ i > Len(cases) THEN tree
    ELSE AddCases(AddCase(tree, s, cases[i]), s, cases, i + 1)

RECURSIVE AddSuites(_, _, _)
AddSuites(tree, suites, i) ==
    IF i > Len(suites) THEN tree
    ELSE AddSuites(AddCases(tree, suites[i], normalizeCases(suites[i]), 1),
                   suites, i + 1)

\* one turn of the loop over the files: a directory entry and a file that
\* does not parse are skipped
AddTestFile(tree, f) ==
    IF ~f.isFile \/ ~f.parses THEN tree
    ELSE AddSuites(tree, normalizeSuites(f.data), 1)

\* the parse error not caught: the loop ends at the file that does not parse
RECURSIVE AddTestFiles_StopAtBadFile(_, _, _)
AddTestFiles_StopAtBadFile(tree, files, i) ==
    IF i > Len(files) \/ (files[i].isFile /\ ~files[i].parses) THEN tree
    ELSE AddTestFiles_StopAtBadFile(AddTestFile(tree, files[i]), files, i + 1)

RECURSIVE AddTestFiles(_, _, _)
AddTestFiles(tree, files, i) ==
    IF i > Len(files) THEN tree
    ELSE AddTestFiles(AddTestFile(tree, files[i]), files, i + 1)

\* String.prototype.endsWith
endsWith(str, suffix) ==
    /\ Len(str) >= Len(suffix)
    /\ SubSeq(str, Len(str) - Len(suffix) + 1, Len(str)) = suffix

\* the skipped cases left out of the counts and of the duration
RECURSIVE ClassTotals_SkippedUncounted(_, _, _)
ClassTotals_SkippedUncounted(cases, i, acc) ==
    IF i > Len(cases) THEN acc
    ELSE ClassTotals_SkippedUncounted(cases, i + 1,
            IF cases[i].status = "skipped" THEN acc
            ELSE [durationMs |-> acc.durationMs + cases[i].durationMs,
                  counts |-> [acc.counts EXCEPT ![cases[i].status] = @ + 1]])

\* the duration and the counts of a class, from its cases
RECURSIVE ClassTotals(_, _, _)
ClassTotals(cases, i, acc) ==
    IF i > Len(cases) THEN acc
    ELSE ClassTotals(cases, i + 1,
            [durationMs |-> acc.durationMs + cases[i].durationMs,
             counts |-> [acc.counts EXCEPT ![cases[i].status] = @ + 1]])

\* node.durationMs += ...; node.counts.x += ...
AddTotals(node, totals) ==
    [node EXCEPT !.durationMs = @ + totals.durationMs,
                 !.counts = [s \in Statuses |-> @[s] + totals.counts[s]]]

\* mutant: the totals of a child package are not added to its parent
AddChildTotals_Dropped(tree, path, child) == tree

AddChildTotals(tree, path, child) ==
    [tree EXCEPT ![path] = AddTotals(@, tree[child])]

SetClassTotals(tree, path, i, totals) ==
    [tree EXCEPT ![path] =
        AddTotals([tree[path] EXCEPT
                      !.classes[i].durationMs = totals.durationMs,
                      !.classes[i].counts = totals.counts],
                  totals)]

\* the aggregator's loop over the classes of a node
RECURSIVE AggregateClasses(_, _, _)
AggregateClasses(tree, path, i) ==
    IF i > Len(tree[path].classes) THEN tree
    ELSE AggregateClasses(
            SetClassTotals(tree, path, i,
                ClassTotals(tree[path].classes[i].cases, 1,
                            [durationMs |-> 0, counts |-> ZeroCounts])),
            path, i + 1)

RECURSIVE aggregate(_, _)

\* the aggregator's loop over the children of a node
RECURSIVE AggregatePackages(_, _, _)
AggregatePackages(tree, path, i) ==
    IF i > Len(tree[path].children) THEN tree
    ELSE AggregatePackages(
            AddChildTotals(aggregate(tree, Append(path, tree[path].children[i])),
                           path, Append(path, tree[path].children[i])),
            path, i + 1)

aggregate(tree, path) ==
    AggregatePackages(AggregateClasses(tree, path, 1), path, 1)

buildTestsTree(d) ==
    IF ~d.exists THEN NullTree
    ELSE aggregate(
            AddTestFiles((<<>> :> TestRoot),
                Filter(d.files,
                       {i \in 1..Len(d.files) :
                          endsWith(d.files[i].name, <<".", "x", "m", "l">>)}),
                1),
            <<>>)

(***************************************************************************)
(* The commands `moka test` and `moka coverage`.  A JavaScript number that *)
(* came out of an argument is [nan, val]; an option that was not given is   *)
(* a field the options record lacks.  What the commands print to stdout is  *)
(* left out; stderr is the sequence of the messages written to it.          *)
(***************************************************************************)
\* String.prototype.startsWith
startsWith(str, prefix) ==
    Len(str) >= Len(prefix) /\ SubSeq(str, 1, Len(prefix)) = prefix

\* argv[i + 1], as a condition: there is a next argument and it is not empty
HasNext(args, i) == i < Len(args) /\ Len(args[i + 1]) > 0

\* +str for an argument: a decimal integer, or else NaN
ToNumber(str) ==
    IF IsDigits(str) THEN [nan |-> FALSE, val |-> DigitsValue(str)]
    ELSE IF Len(str) > 1 /\ str[1] = "-" /\ IsDigits(Tail(str))
    THEN [nan |-> FALSE, val |-> 0 - DigitsValue(Tail(str))]
    ELSE [nan |-> TRUE, val |-> 0]

\* String(n)
String(n) == IF n.nan THEN <<"N", "a", "N">> ELSE NumberToString(n.val)

\* mutant: a percentage equal to the minimum fails as well
Less_OrEqual(p, min) == ~min.nan /\ p <= min.val

\* p < min for the integer p and the number min (false for NaN)
Less(p, min) == ~min.nan /\ p < min.val

UncoveredModes == {<<"a", "u", "t", "o">>, <<"a", "l", "l">>, <<"n", "o", "n", "e">>}

\* process.cwd()
Cwd == <<"/", "p">>

\* the body of the loop of parseArgs in test.ts for argv[i]: the options
\* after it and the index it leaves i at
TestArg(args, i, o) ==
    LET a == args[i] IN
    IF a = <<"-", "-", "g", "r", "a", "d", "l", "e">> /\ HasNext(args, i)
    THEN [i |-> i + 1, o |-> SetField(o, "gradle", args[i + 1])]
    ELSE IF a = <<"-", "-", "c", "w", "d">> /\ HasNext(args, i)
    THEN [i |-> i + 1, o |-> [o EXCEPT !.cwd = args[i + 1]]]
    ELSE IF a = <<"-", "-", "q", "u", "i", "e", "t">> \/ a = <<"-", "q">>
    THEN [i |-> i, o |-> [o EXCEPT !.quiet = TRUE]]
    ELSE IF a = <<"-", "-", "v", "e", "r", "b", "o", "s", "e">> \/ a = <<"-", "v">>
    THEN [i |-> i, o |-> [o EXCEPT !.verbose = TRUE]]
    ELSE IF a = <<"-", "-", "t", "r", "e", "e">>
    THEN IF HasNext(args, i) /\ ~startsWith(args[i + 1], <<"-">>)
         THEN [i |-> i + 1,
               o |-> [o EXCEPT !.showTree = TRUE,
                               !.includeTests = (args[i + 1] = <<"t", "e", "s", "t", "s">>)]]
         ELSE [i |-> i,
               o |-> [o EXCEPT !.showTree = TRUE, !.includeTests = FALSE]]
    ELSE IF startsWith(a, <<"-", "-", "t", "r", "e", "e", "=">>)
    THEN [i |-> i,
          o |-> [o EXCEPT !.showTree = TRUE,
                          !.includeTests = (Split(a, "=")[2] = <<"t", "e", "s", "t", "s">>)]]
    ELSE IF a = <<"-", "-", "t", "e", "s", "t", "s">>
    THEN [i |-> i, o |-> [o EXCEPT !.showTree = TRUE, !.includeTests = TRUE]]
    ELSE IF a = <<"-", "-", "f", "a", "i", "l", "u", "r", "e", "s", "-", "o", "n", "l", "y">>
    THEN [i |-> i, o |-> [o EXCEPT !.failuresOnly = TRUE, !.showTree = TRUE]]
    ELSE IF ~startsWith(a, <<"-">>)
    THEN [i |-> i, o |-> [o EXCEPT !.patterns = Append(@, a)]]
    ELSE IF a = <<"-", "-", "n", "o", "-", "s", "p", "i", "n", "n", "e", "r">>
    THEN [i |-> i, o |-> [o EXCEPT !.noSpinner = TRUE]]
    ELSE IF a = <<"-", "-", "c", "o", "v", "e", "r", "a", "g", "e">>
    THEN [i |-> i, o |-> [o EXCEPT !.coverage = TRUE]]
    ELSE IF a = <<"-", "-", "m", "i", "n", "-", "l", "i", "n", "e", "s">> /\ HasNext(args, i)
    THEN [i |-> i + 1, o |-> SetField(o, "minLines", ToNumber(args[i + 1]))]
    ELSE IF a = <<"-", "-", "m", "i", "n", "-", "f", "u", "n", "c", "s">> /\ HasNext(args, i)
    THEN [i |-> i + 1, o |-> SetField(o, "minFuncs", ToNumber(args[i + 1]))]
    ELSE IF startsWith(a, <<"-", "-", "u", "n", "c", "o", "v", "e", "r", "e", "d", "=">>) /\ Split(a, "=")[2] \in UncoveredModes
    THEN [i |-> i, o |-> [o EXCEPT !.uncovered = Split(a, "=")[2]]]
    ELSE [i |-> i, o |-> o]

RECURSIVE TestArgs(_, _, _)

TestArgsAfter(args, step) == TestArgs(args, step.i + 1, step.o)

TestArgs(args, i, o) ==
    IF i > Len(args) THEN o ELSE TestArgsAfter(args, TestArg(args, i, o))

\* parseArgs of test.ts: the patterns and the options
testParseArgs(args) ==
    TestArgs(args, 1,
             [patterns |-> <<>>, quiet |-> FALSE, verbose |-> FALSE,
              cwd |-> Cwd, showTree |-> FALSE, includeTests |-> FALSE,
              failuresOnly |-> FALSE, noSpinner |-> FALSE, coverage |-> FALSE,
              uncovered |-> <<"a", "u", "t", "o">>])

\* the body of the loop of parseArgs in coverage.ts for argv[i]
CoverageArg(args, i, o) ==
    LET a == args[i] IN
    IF Len(a) = 0 THEN [i |-> i, o |-> o]
    ELSE IF a = <<"-", "-", "r", "u", "n">> THEN [i |-> i, o |-> [o EXCEPT !.run = TRUE]]
    ELSE IF a = <<"-", "-", "g", "r", "a", "d", "l", "e">> /\ HasNext(args, i)
    THEN [i |-> i + 1, o |-> SetField(o, "gradle", args[i + 1])]
    ELSE IF a = <<"-", "-", "v", "e", "r", "b", "o", "s", "e">> \/ a = <<"-", "v">>
    THEN [i |-> i, o |-> [o EXCEPT !.verbose = TRUE]]
    ELSE IF a = <<"-", "-", "n", "o", "-", "s", "p", "i", "n", "n", "e", "r">>
    THEN [i |-> i, o |-> [o EXCEPT !.noSpinner = TRUE]]
    ELSE IF a = <<"-", "-", "c", "w", "d">> /\ HasNext(args, i)
    THEN [i |-> i + 1, o |-> [o EXCEPT !.cwd = args[i + 1]]]
    ELSE IF startsWith(a, <<"-", "-", "u", "n", "c", "o", "v", "e", "r", "e", "d", "=">>)
    THEN [i |-> i,
          o |-> IF Split(a, "=")[2] \in UncoveredModes
                THEN [o EXCEPT !.uncovered = Split(a, "=")[2]] ELSE o]
    ELSE IF a = <<"-", "-", "u", "n", "c", "o", "v", "e", "r", "e", "d">> /\ HasNext(args, i)
    THEN [i |-> i + 1,
          o |-> IF args[i + 1] \in UncoveredModes
                THEN [o EXCEPT !.uncovered = args[i + 1]] ELSE o]
    ELSE IF a = <<"-", "-", "m", "i", "n", "-", "l", "i", "n", "e", "s">> /\ HasNext(args, i)
    THEN [i |-> i + 1, o |-> SetField(o, "minLines", ToNumber(args[i + 1]))]
    ELSE IF a = <<"-", "-", "m", "i", "n", "-", "f", "u", "n", "c", "s">> /\ HasNext(args, i)
    THEN [i |-> i + 1, o |-> SetField(o, "minFuncs", ToNumber(args[i + 1]))]
    ELSE IF ~startsWith(a, <<"-">>) THEN [i |-> i, o |-> SetField(o, "path", a)]
    ELSE [i |-> i, o |-> o]

RECURSIVE CoverageArgs(_, _, _)

CoverageArgsAfter(args, step) == CoverageArgs(args, step.i + 1, step.o)

CoverageArgs(args, i, o) ==
    IF i > Len(args) THEN o
    ELSE CoverageArgsAfter(args, CoverageArg(args, i, o))

\* parseArgs of coverage.ts
coverageParseArgs(args) ==
    CoverageArgs(args, 1,
                 [run |-> FALSE, verbose |-> FALSE, noSpinner |-> FALSE,
                  uncovered |-> <<"a", "u", "t", "o">>, cwd |-> Cwd])

\* the threshold block of cmdCoverage: the exit code and the messages
Thresholds(opts, lPct, fPct, stderr) ==
    LET belowLines == "minLines" \in DOMAIN opts /\ Less(lPct, opts.minLines)
        belowFuncs == "minFuncs" \in DOMAIN opts /\ Less(fPct, opts.minFuncs)
        exitCode1  == IF belowLines THEN 2 ELSE 0
    IN  [threw |-> FALSE,
         code |-> IF belowFuncs
                  THEN (IF exitCode1 > 2 THEN exitCode1 ELSE 2)
                  ELSE exitCode1,
         stderr |->
             stderr
             \o (IF belowLines
                 THEN <<[text |-> "Lines coverage", pct |-> lPct,
                         min |-> opts.minLines]>>
                 ELSE <<>>)
             \o (IF belowFuncs
                 THEN <<[text |-> "Funcs coverage", pct |-> fPct,
                         min |-> opts.minFuncs]>>
                 ELSE <<>>),
         lPct |-> lPct, fPct |-> fPct, opts |-> opts]

\* cmdCoverage from the tree on: 1 without a tree, the thresholds otherwise
Evaluate(opts, tree, stderr) ==
    IF tree = NullTree
    THEN [threw |-> FALSE, code |-> 1,
          stderr |-> Append(stderr,
                       [text |-> "Coverage XML not found or unreadable"]),
          opts |-> opts, root |-> tree]
    ELSE [root |-> tree] @@
         Thresholds(opts,
             thresholdPct(Nullish(tree[<<>>], "linesCovered"),
                          Nullish(tree[<<>>], "linesMissed")),
             thresholdPct(Nullish(tree[<<>>], "funcsCovered"),
                          Nullish(tree[<<>>], "funcsMissed")),
             stderr)

\* cmdCoverage after parseArgs.  w is what the command finds: whether the
\* report is there before the command runs (reportBefore) and when it is read
\* (reportExists), whether Gradle can be spawned and the code its report task
\* exits with; ps are the packages of the report.
CoverageWith(opts, w, ps) ==
    IF (opts.run \/ ~w.reportBefore) /\ ~w.gradleFound
    THEN [threw |-> TRUE]
    ELSE Evaluate(opts,
             IF w.reportExists THEN buildCoverageTreeFromJaCoCo(ps)
             ELSE NullTree,
             IF (opts.run \/ ~w.reportBefore) /\ w.jacocoCode # 0
             THEN <<[text |-> "Gradle jacocoTestReport failed."]>>
             ELSE <<>>)

cmdCoverage(args, w, ps) == CoverageWith(coverageParseArgs(args), w, ps)

\* the arguments cmdTest hands to cmdCoverage
covArgs(opts) ==
    <<<<"-", "-", "r", "u", "n">>, <<"-", "-", "c", "w", "d">>, opts.cwd>>
    \o (IF opts.verbose THEN <<<<"-", "-", "v", "e", "r", "b", "o", "s", "e">>>> ELSE <<>>)
    \o (IF opts.noSpinner THEN <<<<"-", "-", "n", "o", "-", "s", "p", "i", "n", "n", "e", "r">>>> ELSE <<>>)
    \o (IF "gradle" \in DOMAIN opts /\ Len(opts.gradle) > 0
        THEN <<<<"-", "-", "g", "r", "a", "d", "l", "e">>, opts.gradle>> ELSE <<>>)
    \o (IF "minLines" \in DOMAIN opts
        THEN <<<<"-", "-", "m", "i", "n", "-", "l", "i", "n", "e", "s">>, String(opts.minLines)>> ELSE <<>>)
    \o (IF "minFuncs" \in DOMAIN opts
        THEN <<<<"-", "-", "m", "i", "n", "-", "f", "u", "n", "c", "s">>, String(opts.minFuncs)>> ELSE <<>>)
    \o (IF Len(opts.uncovered) > 0
        THEN <<<<"-", "-", "u", "n", "c", "o", "v", "e", "r", "e", "d">>, opts.uncovered>> ELSE <<>>)

\* mutant: the code of the coverage command is ignored
FinalCode_TestOnly(testCode, covCode) == testCode

\* let finalCode = testCode; ... if (covCode !== 0) finalCode = covCode
FinalCode(testCode, covCode) == IF covCode # 0 THEN covCode ELSE testCode

AfterCoverage(opts, testCode, cov) ==
    IF cov.threw THEN cov
    ELSE [cov EXCEPT !.opts = opts, !.code = FinalCode(testCode, cov.code)]
         @@ [testCode |-> testCode, covCode |-> cov.code, covOpts |-> cov.opts]

TestWith(opts, w, ps) ==
    IF ~w.gradleFound THEN [threw |-> TRUE]
    ELSE IF ~opts.coverage
    THEN [threw |-> FALSE, code |-> w.testCode, testCode |-> w.testCode,
          stderr |-> <<>>, opts |-> opts, root |-> NullTree]
    ELSE AfterCoverage(opts, w.testCode, cmdCoverage(covArgs(opts), w, ps))

cmdTest(args, w, ps) == TestWith(testParseArgs(args), w, ps)

(***************************************************************************)
(* The printers.  The text written is kept as its lines, and a line as its *)
(* parts: the prefix as the sequence of its four-character units, the      *)
(* branch, and what the line shows.  The box-drawing characters of the     *)
(* source are written in ASCII.                                            *)
(***************************************************************************)
LastBranch == "\\-- "
MidBranch  == "|-- "
Blank      == "    "
Bar        == "|   "

\* const branch = isRoot ? "" : isLast ? LastBranch : MidBranch
BranchOf(isRoot, isLast) ==
    IF isRoot THEN "" ELSE IF isLast THEN LastBranch ELSE MidBranch

\* the vertical continuation below every entry, the last one included
ChildPrefix_AlwaysBar(prefix, isRoot, isLast) ==
    prefix \o (IF isRoot THEN <<>> ELSE <<Bar>>)

\* const childPrefix = prefix + (isRoot ? "" : isLast ? Blank : Bar)
ChildPrefix(prefix, isRoot, isLast) ==
    prefix \o (IF isRoot THEN <<>> ELSE IF isLast THEN <<Blank>> ELSE <<Bar>>)

\* the mode ignored: the ranges on every file that has uncovered lines
FileLine_AnyMode(sf, childPrefix, isFileLast, uncoveredMode) ==
    [kind |-> "file", prefix |-> childPrefix,
     branch |-> IF isFileLast THEN LastBranch ELSE MidBranch,
     name |-> sf.name,
     f |-> pctInt(sf.funcsCovered, sf.funcsMissed),
     l |-> pctInt(sf.linesCovered, sf.linesMissed),
     uncovered |->
         IF Len(sf.uncoveredLines) > 0
         THEN <<",", " ">> \o compressLines(sf.uncoveredLines)
         ELSE <<>>]

\* the line of a source file, given its two percentages ff and fl
FileLineWith(sf, childPrefix, isFileLast, uncoveredMode, ff, fl) ==
    [kind |-> "file", prefix |-> childPrefix,
     branch |-> IF isFileLast THEN LastBranch ELSE MidBranch,
     name |-> sf.name, f |-> ff, l |-> fl,
     uncovered |->
         IF /\ \/ uncoveredMode = <<"a", "l", "l">>
               \/ uncoveredMode = <<"a", "u", "t", "o">> /\ (ff < 100 \/ fl < 100)
            /\ Len(sf.uncoveredLines) > 0
         THEN <<",", " ">> \o compressLines(sf.uncoveredLines)
         ELSE <<>>]

\* the line of a source file in the coverage tree
FileLine(sf, childPrefix, isFileLast, uncoveredMode) ==
    FileLineWith(sf, childPrefix, isFileLast, uncoveredMode,
                 pctInt(sf.funcsCovered, sf.funcsMissed),
                 pctInt(sf.linesCovered, sf.linesMissed))

\* renderPkg of the coverage tree
RECURSIVE coverageRenderPkg(_, _, _, _, _, _)
coverageRenderPkg(tree, path, prefix, isLast, isRoot, uncoveredMode) ==
    LET pkg         == tree[path]
        childPrefix == ChildPrefix(prefix, isRoot, isLast)
    IN  <<[kind |-> "package", prefix |-> prefix,
           branch |-> BranchOf(isRoot, isLast), name |-> pkg.name,
           bold |-> isRoot,
           f |-> pctInt(Nullish(pkg, "funcsCovered"), Nullish(pkg, "funcsMissed")),
           l |-> pctInt(Nullish(pkg, "linesCovered"), Nullish(pkg, "linesMissed"))]>>
        \o [i \in 1..Len(pkg.sourcefile) |->
               FileLine(pkg.sourcefile[i], childPrefix,
                        i = Len(pkg.sourcefile) /\ Len(pkg.children) = 0,
                        uncoveredMode)]
        \o Concat([i \in 1..Len(pkg.children) |->
                      coverageRenderPkg(tree, Append(path, pkg.children[i]),
                                        childPrefix, i = Len(pkg.children),
                                        FALSE, uncoveredMode)])

\* printCoverageTree: the legend, then the tree; options?.uncovered ?? "auto"
printCoverageTree(tree, options) ==
    <<[kind |-> "header", text |-> "Coverage Tree"]>>
    \o coverageRenderPkg(tree, <<>>, <<>>, TRUE, TRUE,
                         IF "uncovered" \in DOMAIN options
                         THEN options.uncovered ELSE <<"a", "u", "t", "o">>)

\* an option of the outcome printer that is there and true
Flag(o, f) == f \in DOMAIN o /\ o[f]

\* the line of a test case and, for a failed case with a message, the line of
\* the message below it
CaseLines(t, testsPrefix, isLastTest) ==
    <<[kind |-> "case", prefix |-> testsPrefix,
       branch |-> IF isLastTest THEN LastBranch ELSE MidBranch,
       name |-> t.name, status |-> t.status, durationMs |-> t.durationMs]>>
    \o (IF t.status = "failed" /\ HasText(t, "failureMessage")
        THEN <<[kind |-> "detail",
                prefix |-> testsPrefix
                           \o (IF isLastTest THEN <<Blank>> ELSE <<Bar>>),
                branch |-> "", message |-> t.failureMessage]>>
        ELSE <<>>)

\* the filter left out: every case of the class, whatever the options
TestsToShow_All(cls, o) == cls.cases

\* tests = opts.failuresOnly ? testsAll.filter(failed) : testsAll
TestsToShow(cls, o) ==
    IF Flag(o, "failuresOnly")
    THEN Filter(cls.cases,
                {j \in 1..Len(cls.cases) : cls.cases[j].status = "failed"})
    ELSE cls.cases

\* the line of a class and, with includeTests, the lines of its cases
ClassLines(cls, childPrefix, isLastClass, o) ==
    <<[kind |-> "class", prefix |-> childPrefix,
       branch |-> IF isLastClass THEN LastBranch ELSE MidBranch,
       name |-> cls.name, counts |-> cls.counts,
       durationMs |-> cls.durationMs]>>
    \o (IF Flag(o, "includeTests")
        THEN Concat([j \in 1..Len(TestsToShow(cls, o)) |->
                        CaseLines(TestsToShow(cls, o)[j],
                                  childPrefix
                                  \o (IF isLastClass THEN <<Blank>> ELSE <<Bar>>),
                                  j = Len(TestsToShow(cls, o)))])
        ELSE <<>>)

\* renderPkg of the outcome tree
RECURSIVE testsRenderPkg(_, _, _, _, _, _)
testsRenderPkg(tree, path, prefix, isLast, isRoot, o) ==
    LET pkg         == tree[path]
        childPrefix == ChildPrefix(prefix, isRoot, isLast)
        classesToShow ==
            IF Flag(o, "failuresOnly")
            THEN Filter(pkg.classes,
                        {i \in 1..Len(pkg.classes) :
                           pkg.classes[i].counts.failed > 0})
            ELSE pkg.classes
        childrenToShow ==
            IF Flag(o, "failuresOnly")
            THEN Filter(pkg.children,
                        {i \in 1..Len(pkg.children) :
                           tree[Append(path, pkg.children[i])].counts.failed > 0})
            ELSE pkg.children
    IN  <<[kind |-> "package", prefix |-> prefix,
           branch |-> BranchOf(isRoot, isLast), name |-> pkg.name,
           bold |-> isRoot, counts |-> pkg.counts,
           durationMs |-> pkg.durationMs]>>
        \o Concat([i \in 1..Len(classesToShow) |->
                      ClassLines(classesToShow[i], childPrefix,
                                 i = Len(classesToShow)
                                 /\ Len(childrenToShow) = 0,
                                 o)])
        \o Concat([i \in 1..Len(childrenToShow) |->
                      testsRenderPkg(tree, Append(path, childrenToShow[i]),
                                     childPrefix, i = Len(childrenToShow),
                                     FALSE, o)])

\* printTestsTree: the legend, then the tree
printTestsTree(tree, o) ==
    <<[kind |-> "header", text |-> "Test Tree"]>>
    \o testsRenderPkg(tree, <<>>, <<>>, TRUE, TRUE, o)

(***************************************************************************)
(* parseJUnitDir: the totals of the attributes of the suites of a results   *)
(* directory.  A JUnitSummary is a record of four numbers.                  *)
(***************************************************************************)
SummaryFields == {"tests", "failures", "errors", "skipped"}

\* +s["@_x"] || 0: the number an attribute stands for, 0 when the attribute
\* is missing or is not a number
AttrOr0(s, f) ==
    IF f \in DOMAIN s /\ ~ToNumber(s[f]).nan THEN ToNumber(s[f]).val ELSE 0

readSuiteAttrs(s) ==
    [tests    |-> AttrOr0(s, "tests"),
     failures |-> AttrOr0(s, "failures"),
     errors   |-> AttrOr0(s, "errors"),
     skipped  |-> IF AttrOr0(s, "skipped") # 0 THEN AttrOr0(s, "skipped")
                  ELSE AttrOr0(s, "ignored")]

sum(a, b) == [f \in SummaryFields |-> a[f] + b[f]]

RECURSIVE SumSuites(_, _, _)
SumSuites(total, suites, i) ==
    IF i > Len(suites) THEN total
    ELSE SumSuites(sum(total, readSuiteAttrs(suites[i])), suites, i + 1)

\* one turn of the loop over the files; the error of a file that does not
\* parse is caught and the total is left as it is
SumFile(total, f) ==
    IF ~f.isFile \/ ~f.parses THEN total
    ELSE IF "testsuite" \in DOMAIN f.data /\ "tests" \in DOMAIN f.data.testsuite
    THEN sum(total, readSuiteAttrs(f.data.testsuite))
    ELSE IF "testsuites" \in DOMAIN f.data
    THEN SumSuites(total, f.data.testsuites, 1)
    ELSE total

RECURSIVE SumFiles_Junit(_, _, _)
SumFiles_Junit(total, files, i) ==
    IF i > Len(files) THEN total
    ELSE SumFiles_Junit(SumFile(total, files[i]), files, i + 1)

\* null (the empty record here) when the directory does not exist
parseJUnitDir(d) ==
    IF ~d.exists THEN <<>>
    ELSE SumFiles_Junit([f \in SummaryFields |-> 0],
             Filter(d.files,
                    {i \in 1..Len(d.files) :
                       endsWith(d.files[i].name, <<".", "x", "m", "l">>)}),
             1)

(***************************************************************************)
(* Inputs.                                                                 *)
(***************************************************************************)
\* the ascending list of the elements of a finite set of integers
RECURSIVE Ascending(_)
Ascending(S) ==
    IF S = {} THEN <<>>
    ELSE LET lo == CHOOSE x \in S : \A y \in S : x <= y
         IN  <<lo>> \o Ascending(S \ {lo})

LineNumbers == (0 - NegLines)..MaxLine

\* the sequences of at most n elements of S
SeqsUpTo(S, n) == UNION {[1..k -> S] : k \in 0..n}

\* <sourcefile> entries: b (lines 8/2, methods 3/1, lines 10, 11 and 15 not
\* covered) and a (lines 5/5, no METHOD counter, no <line> entries)
SourceFileB ==
    [name |-> <<"b">>,
     counter |-> <<[type |-> "LINE", covered |-> 8, missed |-> 2],
                   [type |-> "METHOD", covered |-> 3, missed |-> 1]>>,
     line |-> <<[nr |-> 15, mi |-> 2, ci |-> 0, mb |-> 0, cb |-> 0],
                [nr |-> 10, mi |-> 1, ci |-> 0, mb |-> 2, cb |-> 0],
                [nr |-> 12, mi |-> 0, ci |-> 3, mb |-> 1, cb |-> 1],
                [nr |-> 11, mi |-> 0, ci |-> 0, mb |-> 1, cb |-> 0]>>]

SourceFileA ==
    [name |-> <<"a">>,
     counter |-> <<[type |-> "INSTRUCTION", covered |-> 20, missed |-> 4],
                   [type |-> "LINE", covered |-> 5, missed |-> 5]>>,
     line |-> <<>>]

\* the <sourcefile> lists of a package: none, one, two out of name order
SourceFileEntries == {<<>>, <<SourceFileB>>, <<SourceFileB, SourceFileA>>}

\* the <class> lists of a package that has no <sourcefile> entry: two classes
\* of one source file
ClassEntries ==
    {<<[sourcefilename |-> <<"B">>,
        counter |-> <<[type |-> "METHOD", covered |-> 1, missed |-> 2],
                      [type |-> "LINE", covered |-> 4, missed |-> 3]>>],
       [sourcefilename |-> <<"B">>,
        counter |-> <<[type |-> "LINE", covered |-> 2, missed |-> 1]>>]>>}

\* package names: siblings out of order, a nested package, the empty name
PackageNames == {<<"b">>, <<"a", ".", "b">>, <<>>}

PackageEntries ==
    {[name |-> n, sourcefile |-> sfs, class |-> <<>>] :
        n \in PackageNames, sfs \in SourceFileEntries}
    \cup
    {[name |-> n, sourcefile |-> <<>>, class |-> cs] :
        n \in PackageNames, cs \in ClassEntries}

\* <testcase> entries: passed, failed (an element with attributes), skipped
\* (no time), a class outside any package with a time that is no number, one
\* without name and classname, a failure given as text next to an empty
\* <skipped/>, and one skipped by its status attribute
TcPass == [name |-> <<"t", "1">>, time |-> <<"0", ".", "0", "1", "2">>, classname |-> <<"a", ".", "B">>]

TcFail ==
    [name |-> <<"t", "2">>, time |-> <<"1", ".", "5">>, classname |-> <<"a", ".", "B">>,
     failure |-> [kind |-> "object", message |-> <<"m">>, type |-> <<"E">>, text |-> <<"a", "t">>]]

TcSkip ==
    [name |-> <<"t", "3">>, classname |-> <<"a", ".", "b", ".", "C">>,
     skipped |-> [kind |-> "object", message |-> <<"s">>]]

TcRoot == [name |-> <<"t", "4">>, time |-> <<"a", "b", "c">>, classname |-> <<"D">>]

TcBare == [time |-> <<"2">>]

TcBoth ==
    [name |-> <<"t", "5">>, time |-> <<"0", ".", "2", "5">>, classname |-> <<"a", ".", ".", "E">>,
     failure |-> Str(<<"b", "o", "o", "m">>), skipped |-> Str(<<>>)]

TcStatus ==
    [name |-> <<"t", "6">>, time |-> <<"0", ".", "5">>, classname |-> <<"a", ".", "B">>, status |-> <<"s", "k", "i", "p", "p", "e", "d">>]

\* <testcase ...><skipped/></testcase>: the empty element is the empty string
TcEmptySkip ==
    [name |-> <<"t", "7">>, classname |-> <<"D">>, skipped |-> Str(<<>>)]

\* directory entries: a file that does not parse, a <testsuite> document, a
\* <testsuites> document of two suites, a suite of edge cases, a document
\* without suites, a file of another kind, and a directory named like a report
TestFiles ==
    {[name |-> <<"1", ".", "x", "m", "l">>, isFile |-> TRUE, parses |-> FALSE, data |-> <<>>],
     [name |-> <<"2", ".", "x", "m", "l">>, isFile |-> TRUE, parses |-> TRUE,
      data |-> [testsuite |-> [name |-> <<"a", ".", "B">>, tests |-> <<"2">>,
                               failures |-> <<"1">>, testcase |-> <<TcPass, TcFail>>]]],
     [name |-> <<"3", ".", "x", "m", "l">>, isFile |-> TRUE, parses |-> TRUE,
      data |-> [testsuites |->
                  <<[name |-> <<"x", ".", "S">>, tests |-> <<"2">>, skipped |-> <<"1">>,
                     testcase |-> <<TcSkip, TcBare>>],
                    [tests |-> <<"2">>, errors |-> <<"x">>, ignored |-> <<"1">>,
                     testcase |-> <<TcBare, TcRoot>>]>>]],
     [name |-> <<"4", ".", "x", "m", "l">>, isFile |-> TRUE, parses |-> TRUE,
      data |-> [testsuite |-> [name |-> <<"e">>, tests |-> <<"3">>,
                               failures |-> <<"1">>, skipped |-> <<"2">>,
                               testcase |-> <<TcBoth, TcStatus, TcEmptySkip>>]]],
     [name |-> <<"5", ".", "x", "m", "l">>, isFile |-> TRUE, parses |-> TRUE, data |-> <<>>],
     [name |-> <<"6", ".", "t", "x", "t">>, isFile |-> TRUE, parses |-> TRUE,
      data |-> [testsuite |-> [name |-> <<"a", ".", "B">>, tests |-> <<"1">>,
                               failures |-> <<"1">>, testcase |-> <<TcFail>>]]],
     [name |-> <<"d", ".", "x", "m", "l">>, isFile |-> FALSE, parses |-> FALSE, data |-> <<>>]}

\* a results directory: missing, or a listing of distinct entries in any order
TestDirs ==
    {[exists |-> FALSE, files |-> <<>>]}
    \cup
    {[exists |-> TRUE, files |-> fs] :
        fs \in {s \in SeqsUpTo(TestFiles, MaxTestFiles) :
                  \A i, j \in 1..Len(s) : s[i].name = s[j].name => i = j}}

\* the values given to --min-lines and to --min-funcs
MinLinesArgs == {<<"4", "0">>, <<"5", "0">>, <<"a", "b", "c">>}

MinFuncsArgs == {<<"5", "0">>, <<"1", "0", "0">>}

\* the uncovered mode on the command line: not given, as two arguments, as one
UncoveredArgs ==
    {<<>>, <<<<"-", "-", "u", "n", "c", "o", "v", "e", "r", "e", "d">>, <<"a", "l", "l">>>>, <<<<"-", "-", "u", "n", "c", "o", "v", "e", "r", "e", "d", "=", "n", "o", "n", "e">>>>}

\* command lines: --run, --coverage, --min-lines <n>, --min-funcs <n>, each
\* there or not, and the uncovered mode
CommandLines ==
    {r \o c \o l \o f \o u :
        u \in UncoveredArgs,
        r \in {<<>>, <<<<"-", "-", "r", "u", "n">>>>},
        c \in {<<>>, <<<<"-", "-", "c", "o", "v", "e", "r", "a", "g", "e">>>>},
        l \in {<<>>} \cup {<<<<"-", "-", "m", "i", "n", "-", "l", "i", "n", "e", "s">>, v>> : v \in MinLinesArgs},
        f \in {<<>>} \cup {<<<<"-", "-", "m", "i", "n", "-", "f", "u", "n", "c", "s">>, v>> : v \in MinFuncsArgs}}

\* reports: 2 of 5 lines and 1 of 2 methods covered; 1 of 2 lines and 3 of 3
\* methods covered; no package
Reports ==
    {<<[name |-> <<"a", ".", "b">>, class |-> <<>>,
        sourcefile |->
            <<[name |-> <<"b">>,
               counter |-> <<[type |-> "LINE", covered |-> 2, missed |-> 3],
                             [type |-> "METHOD", covered |-> 1, missed |-> 1]>>,
               line |-> <<>>]>>]>>,
     <<[name |-> <<"b">>, class |-> <<>>,
        sourcefile |->
            <<[name |-> <<"a">>,
               counter |-> <<[type |-> "LINE", covered |-> 1, missed |-> 1],
                             [type |-> "METHOD", covered |-> 3, missed |-> 0]>>,
               line |-> <<>>]>>]>>,
     <<>>}

\* what a command finds: a report that is there before the command stays there
Worlds ==
    {w \in [testCode : 0..MaxExit, gradleFound : BOOLEAN, jacocoCode : {0, 1},
            reportBefore : BOOLEAN, reportExists : BOOLEAN] :
        w.reportBefore => w.reportExists}

\* source files for the printers: fully covered with a line entry that is
\* not, 199 of 200 lines covered, and the two of SourceFileEntries
SourceFileFull ==
    [name |-> <<"k">>,
     counter |-> <<[type |-> "LINE", covered |-> 4, missed |-> 0],
                   [type |-> "METHOD", covered |-> 2, missed |-> 0]>>,
     line |-> <<[nr |-> 3, mi |-> 1, ci |-> 0, mb |-> 0, cb |-> 0]>>]

SourceFileNearlyFull ==
    [name |-> <<"n">>,
     counter |-> <<[type |-> "LINE", covered |-> 199, missed |-> 1],
                   [type |-> "METHOD", covered |-> 1, missed |-> 0]>>,
     line |-> <<[nr |-> 7, mi |-> 2, ci |-> 0, mb |-> 0, cb |-> 0]>>]

\* the package names of the printed reports: a capital among them
PrintedNames == PackageNames \cup {<<"B">>}

PrintedEntries ==
    {[name |-> n, sourcefile |-> sfs, class |-> <<>>] :
        n \in PrintedNames,
        sfs \in {<<SourceFileB, SourceFileA>>,
                 <<SourceFileFull, SourceFileNearlyFull>>}}

\* the options of printCoverageTree: none, or one of the three modes
CoverageTreeOptions == {<<>>} \cup {[uncovered |-> m] : m \in UncoveredModes}

\* the options of printTestsTree: none, or the two flags
TestTreeOptions ==
    {<<>>} \cup [includeTests : BOOLEAN, failuresOnly : BOOLEAN]

\* package entries for the legacy builder: names with "/" as in the report,
\* each with one of two lists of source files or with none
LegacyEntries ==
    {[name |-> n, sourcefile |-> sfs] :
        n \in {<<"b">>, <<"a", "/", "b">>, <<"a">>},
        sfs \in {<<>>, <<SourceFileB, SourceFileA>>, <<SourceFileFull>>}}

IdlePct   == covered = 0 /\ missed = 0 /\ pcts = <<>>
IdleLines == lines = <<>> /\ text = <<>>
IdleCov   == pkgs = <<>> /\ root = NullTree
IdleTests == dir = <<>> /\ tests = NullTree /\ summary = <<>>
IdleCmd   == argv = <<>> /\ world = <<>> /\ outcome = <<>>
IdlePrint == printOpts = <<>> /\ stdout = <<>>
IdleSpin  == spinners = <<>> /\ intervals = {} /\ trace = <<>> /\ caller = <<>>
IdleRun   ==
    /\ runOpts = <<>> /\ proc = <<>> /\ pipes = <<>>
    /\ consumes = <<>> /\ written = <<>> /\ result = <<>>

(***************************************************************************)
(* The percentage computation applied to every pair of counters.           *)
(***************************************************************************)
InitPct ==
    /\ pc = "start"
    /\ covered \in 0..MaxCount
    /\ missed \in 0..MaxCount
    /\ pcts = <<>>
    /\ IdleSpin /\ IdleRun
    /\ IdleLines /\ IdleCov /\ IdleTests /\ IdleCmd /\ runs = 0
    /\ IdlePrint

ComputePct ==
    /\ pc = "start"
    /\ pc' = "done"
    /\ pcts' = [renderer  |-> pctInt(covered, missed),
                printTree |-> pct(covered, missed),
                threshold |-> thresholdPct(covered, missed)]
    /\ UNCHANGED <<covered, missed, linesVars, covVars, testVars, cmdVars, runs, printVars, spinVars, runVars>>

NextPct == ComputePct

SpecPct == InitPct /\ [][NextPct]_vars

(***************************************************************************)
(* The range compressor applied to every ascending list of distinct line   *)
(* numbers.                                                                *)
(***************************************************************************)
InitLines ==
    /\ pc = "start"
    /\ lines \in {Ascending(S) : S \in SUBSET LineNumbers}
    /\ text = <<>>
    /\ IdleSpin /\ IdleRun
    /\ IdlePct /\ IdleCov /\ IdleTests /\ IdleCmd /\ runs = 0
    /\ IdlePrint

Compress ==
    /\ pc = "start"
    /\ pc' = "done"
    /\ text' = [renderer  |-> compressLines(lines),
                printTree |-> printTreeCompressLines(lines)]
    /\ UNCHANGED <<lines, pctVars, covVars, testVars, cmdVars, runs, printVars, spinVars, runVars>>

NextLines == Compress

SpecLines == InitLines /\ [][NextLines]_vars

(***************************************************************************)
(* The coverage tree built from every report of at most MaxPkgs packages,  *)
(* and the aggregator run again over the tree that was returned.           *)
(***************************************************************************)
InitCov ==
    /\ pc = "start"
    /\ pkgs \in SeqsUpTo(PackageEntries, MaxPkgs)
    /\ root = NullTree
    /\ runs = 0
    /\ IdleSpin /\ IdleRun
    /\ IdlePct /\ IdleLines /\ IdleTests /\ IdleCmd
    /\ IdlePrint

BuildCoverageTree ==
    /\ pc = "start"
    /\ pc' = "built"
    /\ root' = buildCoverageTreeFromJaCoCo(pkgs)
    /\ runs' = IF Len(pkgs) = 0 THEN 0 ELSE 1
    /\ UNCHANGED <<pkgs, pctVars, linesVars, testVars, cmdVars, printVars, spinVars, runVars>>

AggregateCoverageAgain ==
    /\ pc \in {"built", "again"}
    /\ root # NullTree
    /\ runs < MaxRuns
    /\ pc' = "again"
    /\ root' = aggregateCoverage(root, <<>>)
    /\ runs' = runs + 1
    /\ UNCHANGED <<pkgs, pctVars, linesVars, testVars, cmdVars, printVars, spinVars, runVars>>

NextCov == BuildCoverageTree \/ AggregateCoverageAgain

SpecCov == InitCov /\ [][NextCov]_vars

(***************************************************************************)
(* The outcome tree built from every results directory of at most          *)
(* MaxTestFiles entries, and the aggregator run again over the tree that   *)
(* was returned.                                                           *)
(***************************************************************************)
InitTests ==
    /\ pc = "start"
    /\ dir \in TestDirs
    /\ tests = NullTree
    /\ summary = <<>>
    /\ runs = 0
    /\ IdleSpin /\ IdleRun
    /\ IdlePct /\ IdleLines /\ IdleCov /\ IdleCmd
    /\ IdlePrint

BuildTestsTree ==
    /\ pc = "start"
    /\ pc' = "built"
    /\ tests' = buildTestsTree(dir)
    /\ runs' = IF dir.exists THEN 1 ELSE 0
    /\ UNCHANGED <<dir, summary, pctVars, linesVars, covVars, cmdVars, printVars, spinVars, runVars>>

AggregateTestsAgain ==
    /\ pc \in {"built", "again"}
    /\ tests # NullTree
    /\ runs < MaxRuns
    /\ pc' = "again"
    /\ tests' = aggregate(tests, <<>>)
    /\ runs' = runs + 1
    /\ UNCHANGED <<dir, summary, pctVars, linesVars, covVars, cmdVars, printVars, spinVars, runVars>>

\* the summary is taken once, before or after the tree is built
ParseJUnitDir ==
    /\ pc \in {"start", "built"}
    /\ summary = <<>>
    /\ summary' = parseJUnitDir(dir)
    /\ UNCHANGED <<pc, dir, tests, runs, pctVars, linesVars, covVars, cmdVars, printVars, spinVars, runVars>>

NextTests == BuildTestsTree \/ AggregateTestsAgain \/ ParseJUnitDir

SpecTests == InitTests /\ [][NextTests]_vars

(***************************************************************************)
(* The two commands run on every command line of CommandLines, in every    *)
(* world of Worlds, on every report of Reports.                            *)
(***************************************************************************)
InitCmd ==
    /\ pc = "start"
    /\ argv \in CommandLines
    /\ world \in Worlds
    /\ pkgs \in Reports
    /\ (~world.reportExists => pkgs = <<>>)
    /\ root = NullTree
    /\ outcome = <<>>
    /\ runs = 0
    /\ IdleSpin /\ IdleRun
    /\ IdlePct /\ IdleLines /\ IdleTests
    /\ IdlePrint

RunCoverage ==
    /\ pc = "start"
    /\ pc' = "coverage done"
    /\ \E res \in {cmdCoverage(argv, world, pkgs)} :
          /\ outcome' = res
          /\ root' = IF res.threw THEN NullTree ELSE res.root
    /\ UNCHANGED <<argv, world, pkgs, runs, pctVars, linesVars, testVars, printVars, spinVars, runVars>>

RunTest ==
    /\ pc = "start"
    /\ pc' = "test done"
    /\ \E res \in {cmdTest(argv, world, pkgs)} :
          /\ outcome' = res
          /\ root' = IF res.threw THEN NullTree ELSE res.root
    /\ UNCHANGED <<argv, world, pkgs, runs, pctVars, linesVars, testVars, printVars, spinVars, runVars>>

NextCmd == RunCoverage \/ RunTest

SpecCmd == InitCmd /\ [][NextCmd]_vars

(***************************************************************************)
(* The printers on every tree built from a report of at most MaxPkgs       *)
(* entries of PrintedEntries or from a results directory of TestDirs, with *)
(* every set of options.  The tree of the other kind is not built: its     *)
(* builder finds nothing and returns null.                                 *)
(***************************************************************************)
InitPrint ==
    /\ pc = "start"
    /\ \/ /\ pkgs \in SeqsUpTo(PrintedEntries, MaxPkgs)
          /\ dir = [exists |-> FALSE, files |-> <<>>]
       \/ /\ pkgs = <<>>
          /\ dir \in TestDirs
    /\ root = NullTree
    /\ tests = NullTree
    /\ summary = <<>>
    /\ runs = 0
    /\ IdleSpin /\ IdleRun
    /\ IdlePct /\ IdleLines /\ IdleCmd /\ IdlePrint

PrintCoverageTree ==
    /\ pc = "built"
    /\ root # NullTree
    /\ pc' = "printed"
    /\ \E options \in CoverageTreeOptions :
          /\ printOpts' = options
          /\ stdout' = printCoverageTree(root, options)
    /\ UNCHANGED <<pctVars, linesVars, covVars, testVars, cmdVars, runs, spinVars, runVars>>

PrintTestsTree ==
    /\ pc = "built"
    /\ tests # NullTree
    /\ pc' = "printed"
    /\ \E o \in TestTreeOptions :
          /\ printOpts' = o
          /\ stdout' = printTestsTree(tests, o)
    /\ UNCHANGED <<pctVars, linesVars, covVars, testVars, cmdVars, runs, spinVars, runVars>>

NextPrint ==
    \/ BuildCoverageTree
    \/ BuildTestsTree
    \/ PrintCoverageTree
    \/ PrintTestsTree

SpecPrint == InitPrint /\ [][NextPrint]_vars

(***************************************************************************)
(* The legacy builder on every list of at most MaxPkgs entries of          *)
(* LegacyEntries.                                                          *)
(***************************************************************************)
InitLegacy ==
    /\ pc = "start"
    /\ pkgs \in SeqsUpTo(LegacyEntries, MaxPkgs)
    /\ root = NullTree
    /\ runs = 0
    /\ IdleSpin /\ IdleRun
    /\ IdlePct /\ IdleLines /\ IdleTests /\ IdleCmd /\ IdlePrint

BuildPackageTree ==
    /\ pc = "start"
    /\ pc' = "built"
    /\ root' = buildPackageTree(pkgs)
    /\ runs' = 1
    /\ UNCHANGED <<pkgs, pctVars, linesVars, testVars, cmdVars, printVars, spinVars, runVars>>

NextLegacy == BuildPackageTree

SpecLegacy == InitLegacy /\ [][NextLegacy]_vars

(***************************************************************************)
(* The progress spinner.  A spinner is the record of the variables its     *)
(* closures share: timer = 0 stands for null, a handle returned by         *)
(* setInterval is a positive number.  The event loop holds the registered  *)
(* interval timers, each with the spinner whose tick it calls.  A call     *)
(* yields the spinner afterwards, the registered timers afterwards and     *)
(* what it wrote to the terminal.  The elapsed time shown in a frame is    *)
(* not modelled.                                                           *)
(***************************************************************************)
defaultFrames == <<"f0", "f1", "f2", "f3", "f4", "f5", "f6", "f7", "f8", "f9">>

\* the spinner of a command run with --verbose or --no-spinner: null
NoSpinner == <<>>

createSpinner(isEnabled) == [enabled |-> isEnabled, timer |-> 0, frame |-> 0]

\* get isActive() { return !!timer }
isActive(s) == s.timer # 0

\* tick: renders the current frame and moves to the next one
tick(s) == [s EXCEPT !.frame = (s.frame + 1) % Len(defaultFrames)]

Rendered(s) == <<defaultFrames[s.frame + 1]>>

\* start goes on unless `!enabled || timer`
CanStart_IgnoreTimer(s) == s.enabled

CanStart(s) == s.enabled /\ s.timer = 0

start(s, ivs, who, handle) ==
    IF ~CanStart(s)
    THEN [spinner |-> s, intervals |-> ivs, wrote |-> <<>>]
    ELSE [spinner   |-> tick([s EXCEPT !.timer = handle]),
          intervals |-> ivs \cup {[handle |-> handle, of |-> who]},
          wrote     |-> Rendered(s)]

stop(s, ivs) ==
    IF ~s.enabled
    THEN [spinner |-> s, intervals |-> ivs, wrote |-> <<>>]
    ELSE [spinner   |-> [s EXCEPT !.timer = 0],
          intervals |-> IF s.timer # 0
                        THEN {iv \in ivs : iv.handle # s.timer}
                        ELSE ivs,
          wrote     |-> <<"clear">>]

\* succeed and fail: stop(), then the message if there is one
succeed(s, ivs, msg) ==
    LET stopped == stop(s, ivs)
    IN  [stopped EXCEPT !.wrote = @ \o (IF Truthy(msg) THEN <<"message">> ELSE <<>>)]

fail(s, ivs, msg) == succeed(s, ivs, msg)

\* spinner?.start() and spinner?.stop()
OptionalStart(s, ivs, who, handle) ==
    IF s = NoSpinner
    THEN [spinner |-> s, intervals |-> ivs, wrote |-> <<>>]
    ELSE start(s, ivs, who, handle)

OptionalStop(s, ivs) ==
    IF s = NoSpinner
    THEN [spinner |-> s, intervals |-> ivs, wrote |-> <<>>]
    ELSE stop(s, ivs)

\* the spinner of cmdTest and of cmdCoverage: none with --verbose or
\* --no-spinner, and enabled on a terminal outside CI
CommandSpinner(c) ==
    IF ~c.verbose /\ ~c.noSpinner THEN createSpinner(c.canAnimate) ELSE NoSpinner

(***************************************************************************)
(* The spinner under three callers: any sequence of at most MaxCalls calls *)
(* to one spinner; cmdTest; and cmdCoverage.  The interval timer fires     *)
(* only when no JavaScript is running: between the calls of the free       *)
(* caller, while a command awaits runCmd, and after the command returned.  *)
(***************************************************************************)
Messages == {Undefined, Str(<<"o", "k">>)}

Callers ==
    {[driver |-> "calls", canAnimate |-> e] : e \in BOOLEAN}
    \cup {[driver |-> d, canAnimate |-> e, verbose |-> v, noSpinner |-> n,
           coverage |-> c, generate |-> g] :
            d \in {"test", "coverage"}, e \in BOOLEAN, v \in BOOLEAN,
            n \in BOOLEAN, c \in BOOLEAN, g \in BOOLEAN}

InitSpinner ==
    /\ pc = "start"
    /\ caller \in Callers
    /\ spinners = IF caller.driver = "calls"
                  THEN [who \in {"any"} |-> createSpinner(caller.canAnimate)]
                  ELSE [who \in {"test", "coverage"} |-> NoSpinner]
    /\ intervals = {}
    /\ trace = <<>>
    /\ runs = 0
    /\ IdleRun
    /\ IdlePct /\ IdleLines /\ IdleCov /\ IdleTests /\ IdleCmd /\ IdlePrint

CallsMade == Len(SelectSeq(trace, LAMBDA e : e.op # "tick"))

TicksFired == Len(SelectSeq(trace, LAMBDA e : e.op = "tick"))

\* the handle setInterval returns next
NextHandle == Len(trace) + 1

Called(who, op, r) ==
    /\ spinners' = [spinners EXCEPT ![who] = r.spinner]
    /\ intervals' = r.intervals
    /\ trace' = Append(trace, [who |-> who, op |-> op, wrote |-> r.wrote])

Noted(who, op) == trace' = Append(trace, [who |-> who, op |-> op, wrote |-> <<>>])

FreeCall == pc = "start" /\ caller.driver = "calls" /\ CallsMade < MaxCalls

SpinOther == UNCHANGED <<caller, runs, pctVars, linesVars, covVars, testVars,
                         cmdVars, printVars, runVars>>

Start ==
    /\ FreeCall
    /\ Called("any", "start", start(spinners["any"], intervals, "any", NextHandle))
    /\ UNCHANGED pc /\ SpinOther

Stop ==
    /\ FreeCall
    /\ Called("any", "stop", stop(spinners["any"], intervals))
    /\ UNCHANGED pc /\ SpinOther

Succeed ==
    /\ FreeCall
    /\ \E msg \in Messages :
          Called("any", "succeed", succeed(spinners["any"], intervals, msg))
    /\ UNCHANGED pc /\ SpinOther

Fail ==
    /\ FreeCall
    /\ \E msg \in Messages :
          Called("any", "fail", fail(spinners["any"], intervals, msg))
    /\ UNCHANGED pc /\ SpinOther

\* a registered interval timer fires and calls the tick of its spinner
Tick ==
    /\ pc \in {"start", "test: runCmd", "coverage: runCmd", "left"}
    /\ TicksFired < MaxTicks
    /\ \E iv \in intervals :
          /\ spinners' = [spinners EXCEPT ![iv.of] = tick(@)]
          /\ trace' = Append(trace, [who |-> iv.of, op |-> "tick",
                                     wrote |-> Rendered(spinners[iv.of])])
    /\ UNCHANGED <<pc, intervals>> /\ SpinOther

\* cmdTest up to its await: the spinner is made and started
TestTry ==
    /\ pc = "start" /\ caller.driver = "test"
    /\ Called("test", "start",
              OptionalStart(CommandSpinner(caller), intervals, "test", NextHandle))
    /\ pc' = "test: runCmd"
    /\ SpinOther

\* runCmd resolves (the spinner is stopped, the results are printed and the
\* coverage command is called if asked for) or throws
TestRunCmdSettles ==
    /\ pc = "test: runCmd"
    /\ \/ /\ Called("test", "stop", OptionalStop(spinners["test"], intervals))
          /\ pc' = IF caller.coverage THEN "coverage: start" ELSE "test: finally"
       \/ /\ Noted("test", "runCmd throws")
          /\ pc' = "test: finally"
          /\ UNCHANGED <<spinners, intervals>>
    /\ SpinOther

TestFinally ==
    /\ pc = "test: finally"
    /\ Called("test", "stop", OptionalStop(spinners["test"], intervals))
    /\ pc' = "left"
    /\ SpinOther

\* cmdCoverage up to its await; called by cmdTest it is given --run,
\* --verbose and --no-spinner as cmdTest has them
CoverageTry ==
    /\ \/ pc = "start" /\ caller.driver = "coverage"
       \/ pc = "coverage: start"
    /\ IF caller.driver = "test" \/ caller.generate
       THEN /\ Called("coverage", "start",
                      OptionalStart(CommandSpinner(caller), intervals,
                                    "coverage", NextHandle))
            /\ pc' = "coverage: runCmd"
       ELSE /\ pc' = "coverage: after"
            /\ UNCHANGED <<spinners, intervals, trace>>
    /\ SpinOther

CoverageRunCmdSettles ==
    /\ pc = "coverage: runCmd"
    /\ \/ Called("coverage", "stop", OptionalStop(spinners["coverage"], intervals))
       \/ /\ Noted("coverage", "runCmd throws")
          /\ UNCHANGED <<spinners, intervals>>
    /\ pc' = "coverage: finally"
    /\ SpinOther

CoverageFinally ==
    /\ pc = "coverage: finally"
    /\ Called("coverage", "stop", OptionalStop(spinners["coverage"], intervals))
    /\ pc' = "coverage: after"
    /\ SpinOther

\* the block is left: cmdCoverage goes on and returns, or the error goes up
CoverageReturns ==
    /\ pc = "coverage: after"
    /\ pc' = IF caller.driver = "test" THEN "test: finally" ELSE "left"
    /\ UNCHANGED <<spinners, intervals, trace>>
    /\ SpinOther

NextSpinner ==
    \/ Start \/ Stop \/ Succeed \/ Fail \/ Tick
    \/ TestTry \/ TestRunCmdSettles \/ TestFinally
    \/ CoverageTry \/ CoverageRunCmdSettles \/ CoverageFinally \/ CoverageReturns

SpecSpinner == InitSpinner /\ [][NextSpinner]_vars

(***************************************************************************)
(* runCmd.  The child process writes chunks to its stdout and stderr,      *)
(* closes them and exits, in any order; with piped output a consumer per   *)
(* stream reads the chunks one by one until the stream ends.  An option    *)
(* that may be missing is "undefined"; a filter either keeps the text or   *)
(* returns null.  Decoding a chunk is not modelled: a chunk is its text.   *)
(***************************************************************************)
Streams == {"stdout", "stderr"}

RunOptions ==
    {[inherit |-> i, forwardOutput |-> f, filter |-> g] :
        i \in BOOLEAN,
        f \in {"undefined", "true", "false"},
        g \in {"undefined", "keep", "drop"}}

ExitCodes == {0, 1}

\* Bun.spawn
Spawned ==
    [produced |-> [w \in Streams |-> 0],
     open     |-> [w \in Streams |-> TRUE],
     exited   |-> FALSE,
     code     |-> 0]

\* options.filter(text, which): the text, or null
FilterResult(opts, chunk) ==
    IF opts.filter = "keep" THEN <<chunk>> ELSE <<>>

\* consume, one chunk: what is written to the parent's stream which
Forwarded(opts, chunk, which) ==
    IF opts.forwardOutput # "true" /\ opts.filter = "undefined"
    THEN <<>>
    ELSE LET toWrite == IF opts.filter # "undefined"
                        THEN FilterResult(opts, chunk)
                        ELSE <<chunk>>
         IN  IF toWrite # <<>> /\ opts.forwardOutput # "false"
             THEN <<[to |-> which, text |-> toWrite[1]]>>
             ELSE <<>>

\* Promise.all(consumes) is fulfilled
PromiseAll_NotAwaited(cs) == TRUE

PromiseAll(cs) == \A w \in DOMAIN cs : cs[w] = "done"

InitRun ==
    /\ pc = "start"
    /\ runOpts \in RunOptions
    /\ proc = <<>> /\ pipes = <<>> /\ consumes = <<>>
    /\ written = <<>> /\ result = <<>>
    /\ runs = 0
    /\ IdleSpin
    /\ IdlePct /\ IdleLines /\ IdleCov /\ IdleTests /\ IdleCmd /\ IdlePrint

RunOther == UNCHANGED <<runOpts, runs, pctVars, linesVars, covVars, testVars,
                        cmdVars, printVars, spinVars>>

\* runCmd up to `await proc.exited`: the child is spawned and, unless its
\* output is inherited, the two consumers are started
RunCmd ==
    /\ pc = "start"
    /\ pc' = "awaiting exit"
    /\ proc' = Spawned
    /\ pipes' = [w \in Streams |-> <<>>]
    /\ consumes' = IF runOpts.inherit
                   THEN <<>>
                   ELSE [w \in Streams |-> "reading"]
    /\ UNCHANGED <<written, result>>
    /\ RunOther

\* the child writes a chunk: to the parent's stream when inherited, to the
\* pipe otherwise
ChildWrites ==
    /\ pc \in {"awaiting exit", "awaiting consumers", "resolved"}
    /\ ~proc.exited
    /\ \E w \in Streams :
          /\ proc.open[w]
          /\ proc.produced[w] < MaxChunks
          /\ proc' = [proc EXCEPT !.produced[w] = @ + 1]
          /\ LET chunk == <<w, proc.produced[w] + 1>>
             IN  IF runOpts.inherit
                 THEN /\ written' = Append(written, [to |-> w, text |-> chunk])
                      /\ UNCHANGED pipes
                 ELSE /\ pipes' = [pipes EXCEPT ![w] = Append(@, chunk)]
                      /\ UNCHANGED written
    /\ UNCHANGED <<pc, consumes, result>>
    /\ RunOther

\* the write end of a stream is closed, before or after the exit
StreamEnds ==
    /\ pc \in {"awaiting exit", "awaiting consumers", "resolved"}
    /\ \E w \in Streams :
          /\ proc.open[w]
          /\ proc' = [proc EXCEPT !.open[w] = FALSE]
    /\ UNCHANGED <<pc, pipes, consumes, written, result>>
    /\ RunOther

ChildExits ==
    /\ pc \in {"awaiting exit", "awaiting consumers", "resolved"}
    /\ ~proc.exited
    /\ \E c \in ExitCodes : proc' = [proc EXCEPT !.exited = TRUE, !.code = c]
    /\ UNCHANGED <<pc, pipes, consumes, written, result>>
    /\ RunOther

\* a consumer's reader.read() settles: with the next chunk, or with done
\* once the stream has ended and is empty
ConsumerReads ==
    /\ \E w \in DOMAIN consumes :
          /\ consumes[w] = "reading"
          /\ \/ /\ pipes[w] # <<>>
                /\ pipes' = [pipes EXCEPT ![w] = Tail(@)]
                /\ written' = written \o Forwarded(runOpts, Head(pipes[w]), w)
                /\ UNCHANGED consumes
             \/ /\ pipes[w] = <<>> /\ ~proc.open[w]
                /\ consumes' = [consumes EXCEPT ![w] = "done"]
                /\ UNCHANGED <<pipes, written>>
    /\ UNCHANGED <<pc, proc, result>>
    /\ RunOther

\* `const code = await proc.exited` goes on
ProcExited ==
    /\ pc = "awaiting exit"
    /\ proc.exited
    /\ pc' = "awaiting consumers"
    /\ UNCHANGED <<proc, pipes, consumes, written, result>>
    /\ RunOther

\* `await Promise.all(consumes)` goes on and runCmd resolves
Resolves ==
    /\ pc = "awaiting consumers"
    /\ PromiseAll(consumes)
    /\ pc' = "resolved"
    /\ result' = [code |-> proc.code]
    /\ UNCHANGED <<proc, pipes, consumes, written>>
    /\ RunOther

NextRun ==
    \/ RunCmd \/ ChildWrites \/ StreamEnds \/ ChildExits
    \/ ConsumerReads \/ ProcExited \/ Resolves

SpecRun == InitRun /\ [][NextRun]_vars

(***************************************************************************)
(* Claims about the coverage tree.                                         *)
(***************************************************************************)
RECURSIVE SumSeq(_)
SumSeq(ints) == IF Len(ints) = 0 THEN 0 ELSE ints[1] + SumSeq(Tail(ints))

\* the sum of f over the set S
RECURSIVE SumOver(_, _)
SumOver(f, S) ==
    IF S = {} THEN 0
    ELSE LET x == CHOOSE y \in S : TRUE IN f[x] + SumOver(f, S \ {x})

\* the paths of the nodes directly below the node at path
ChildPaths(tree, path) ==
    {q \in DOMAIN tree :
        Len(q) = Len(path) + 1 /\ SubSeq(q, 1, Len(path)) = path}

\* C1: in the tree buildCoverageTreeFromJaCoCo returns, each of the four
\* counters of every node equals the sum of that counter over the node's own
\* source files plus the sum of the aggregated counter over its children.
C1_CoverageSums ==
    pc = "built" /\ root # NullTree =>
        \A path \in DOMAIN root : \A m \in Metrics :
            /\ m \in DOMAIN root[path]
            /\ root[path][m] =
                 SumSeq([k \in 1..Len(root[path].sourcefile) |->
                            root[path].sourcefile[k][m]])
                 + SumOver([q \in ChildPaths(root, path) |-> root[q][m]],
                           ChildPaths(root, path))

\* a node with a source file of its own and a child that adds to its sums
C1_Witness ==
    /\ pc = "built"
    /\ root # NullTree
    /\ \E path \in DOMAIN root :
          /\ Len(root[path].sourcefile) > 0
          /\ ChildPaths(root, path) # {}
          /\ root[path].linesCovered > root[path].sourcefile[1].linesCovered
          /\ root[<<>>].linesCovered = root[path].linesCovered

\* C4: a further run of aggregateCoverage over the aggregated tree leaves the
\* four counters of every node and the order of its children as they were.
C4_CoverageAggregateIdempotent ==
    [][pc' = "again" =>
          /\ DOMAIN root' = DOMAIN root
          /\ \A path \in DOMAIN root :
                /\ \A m \in Metrics : root'[path][m] = root[path][m]
                /\ root'[path].children = root[path].children]_vars

\* the second run has happened on a tree whose root has two children that the
\* report listed out of order
C4_Witness ==
    /\ pc = "again"
    /\ runs = 2
    /\ Len(pkgs) = 2
    /\ pkgs[1].name = <<"b">>
    /\ root[<<>>].children = <<(<<"a">>), (<<"b">>)>>
    /\ root[<<>>].linesCovered > 0

(***************************************************************************)
(* Claims about the outcome tree.                                          *)
(***************************************************************************)
\* the fields the outcome aggregator writes, as one function
Totals(node) ==
    [k \in Statuses \cup {"durationMs"} |->
        IF k = "durationMs" THEN node.durationMs ELSE node.counts[k]]

\* the totals of a class computed from its case list
CaseTotals(cls) ==
    [k \in Statuses \cup {"durationMs"} |->
        IF k = "durationMs"
        THEN SumSeq([i \in 1..Len(cls.cases) |-> cls.cases[i].durationMs])
        ELSE Cardinality({i \in 1..Len(cls.cases) : cls.cases[i].status = k})]

\* C2: in the tree buildTestsTree returns, the passed, failed and skipped
\* counts and the duration of every package node equal the sum over its own
\* classes plus the sum of the aggregated field over its child packages, the
\* totals of each class being those of its own case list.
C2_OutcomeSums ==
    pc = "built" /\ tests # NullTree =>
        \A path \in DOMAIN tests : \A k \in Statuses \cup {"durationMs"} :
            /\ \A i \in 1..Len(tests[path].classes) :
                  Totals(tests[path].classes[i])[k]
                      = CaseTotals(tests[path].classes[i])[k]
            /\ Totals(tests[path])[k] =
                 SumSeq([i \in 1..Len(tests[path].classes) |->
                            Totals(tests[path].classes[i])[k]])
                 + SumOver([q \in ChildPaths(tests, path) |-> Totals(tests[q])[k]],
                           ChildPaths(tests, path))

\* a package with a class of its own (a passed and a failed case) and a child
\* package that adds a skipped case to its totals
C2_Witness ==
    /\ pc = "built"
    /\ tests # NullTree
    /\ \E path \in DOMAIN tests :
          /\ Len(path) > 0
          /\ Len(tests[path].classes) > 0
          /\ ChildPaths(tests, path) # {}
          /\ tests[path].counts.passed > 0
          /\ tests[path].counts.failed > 0
          /\ tests[path].counts.skipped > 0
          /\ tests[path].durationMs > 0
          /\ tests[<<>>].durationMs > tests[path].durationMs

\* C3: a further run of aggregate over the aggregated outcome tree leaves the
\* counts and the duration of every package node and of every class as they
\* were after the first run.
C3_OutcomeAggregateIdempotent ==
    [][pc' = "again" =>
          /\ DOMAIN tests' = DOMAIN tests
          /\ \A path \in DOMAIN tests :
                /\ Totals(tests'[path]) = Totals(tests[path])
                /\ Len(tests'[path].classes) = Len(tests[path].classes)
                /\ \A i \in 1..Len(tests[path].classes) :
                      Totals(tests'[path].classes[i])
                          = Totals(tests[path].classes[i])]_vars

(***************************************************************************)
(* Claims about the exit codes of the commands.                            *)
(***************************************************************************)
\* the minimum is a number strictly greater than the percentage
Exceeds(min, p) == ~min.nan /\ min.val > p

\* a minimum for the metric was configured and the percentage is below it
NotMet(o, minName, pctName) ==
    minName \in DOMAIN o.opts /\ Exceeds(o.opts[minName], o[pctName])

\* cmdTest returned, and it had run the coverage command
TestedWithCoverage ==
    pc = "test done" /\ ~outcome.threw /\ outcome.opts.coverage

\* C5: when cmdTest runs with coverage, the code it returns is the maximum of
\* the code of the test run and the code of the coverage command.
C5_ExitCodeIsMaximum ==
    TestedWithCoverage =>
        outcome.code = IF world.testCode > outcome.covCode
                       THEN world.testCode ELSE outcome.covCode

\* C6: when cmdTest runs with coverage, the code it returns is 0 only if the
\* code of the test run and the code of the coverage command are both 0; a
\* test run that exits with 0 and a configured minimum that is not met give a
\* code other than 0.
C6_ZeroOnlyIfBothZero ==
    TestedWithCoverage =>
        /\ outcome.code = 0 => world.testCode = 0 /\ outcome.covCode = 0
        /\ (/\ world.testCode = 0
            /\ root # NullTree
            /\ \/ NotMet(outcome, "minLines", "lPct")
               \/ NotMet(outcome, "minFuncs", "fPct"))
           => outcome.code # 0

\* the test run exits with 0, the lines are covered to 40 percent, the minimum
\* is 50, and cmdTest returns the 2 of the coverage command
C6_Witness ==
    /\ TestedWithCoverage
    /\ world.testCode = 0
    /\ root # NullTree
    /\ outcome.lPct = 40
    /\ "minLines" \in DOMAIN outcome.opts
    /\ outcome.opts.minLines = [nan |-> FALSE, val |-> 50]
    /\ outcome.covCode = 2
    /\ outcome.code = 2

\* the messages of the threshold block among the messages written to stderr
ThresholdMessages(stderr) ==
    LET IsThreshold(m) == m.text \in {"Lines coverage", "Funcs coverage"}
    IN  SelectSeq(stderr, IsThreshold)

\* C7: on a report the builder made a tree of, cmdCoverage returns 2 exactly
\* when a configured minimum is strictly greater than the root percentage of
\* its metric, and 0 otherwise: a percentage equal to its minimum passes, a
\* minimum that was not configured never fails, and every metric below its
\* minimum has a message of its own on stderr.
C7_ThresholdVerdict ==
    pc = "coverage done" /\ ~outcome.threw /\ root # NullTree =>
        /\ outcome.lPct = thresholdPct(root[<<>>].linesCovered,
                                       root[<<>>].linesMissed)
        /\ outcome.fPct = thresholdPct(root[<<>>].funcsCovered,
                                       root[<<>>].funcsMissed)
        /\ outcome.code =
             IF \/ NotMet(outcome, "minLines", "lPct")
                \/ NotMet(outcome, "minFuncs", "fPct")
             THEN 2 ELSE 0
        /\ [i \in 1..Len(ThresholdMessages(outcome.stderr)) |->
               ThresholdMessages(outcome.stderr)[i].text]
             = (IF NotMet(outcome, "minLines", "lPct")
                THEN <<"Lines coverage">> ELSE <<>>)
               \o (IF NotMet(outcome, "minFuncs", "fPct")
                   THEN <<"Funcs coverage">> ELSE <<>>)

\* the lines are covered to 40 percent and the minimum is 40, the methods to
\* 50 percent and the minimum is 100: 2, and one message, for the methods
C7_Witness ==
    /\ pc = "coverage done"
    /\ ~outcome.threw
    /\ root # NullTree
    /\ outcome.lPct = 40
    /\ outcome.fPct = 50
    /\ {"minLines", "minFuncs"} \subseteq DOMAIN outcome.opts
    /\ outcome.opts.minLines.val = 40
    /\ outcome.opts.minFuncs.val = 100
    /\ outcome.code = 2
    /\ Len(ThresholdMessages(outcome.stderr)) = 1

(***************************************************************************)
(* Claims about the percentage computation.                                *)
(***************************************************************************)
\* the integer nearest to 100 * cov / (cov + miss), halves rounded up
NearestPct(cov, miss) ==
    IF cov + miss = 0 THEN 0
    ELSE (200 * cov + (cov + miss)) \div (2 * (cov + miss))

\* C8: for all counters the percentage is 0 when covered + missed = 0 and
\* otherwise the integer nearest to 100 * covered / (covered + missed), halves
\* rounded up; it lies in 0..100; pctInt and cmdCoverage's computation agree.
C8_PctIsNearestInteger ==
    pc = "done" /\ pcts # <<>> =>
        /\ pcts.renderer = NearestPct(covered, missed)
        /\ pcts.renderer \in 0..100
        /\ pcts.threshold = pcts.renderer

(***************************************************************************)
(* Claims about the range compressor.                                      *)
(***************************************************************************)
\* the maximal runs of consecutive integers of ls, as pairs of indices
MaximalRuns(ls) ==
    {r \in (1..Len(ls)) \X (1..Len(ls)) :
        /\ r[1] <= r[2]
        /\ \A k \in r[1]..(r[2] - 1) : ls[k + 1] = ls[k] + 1
        /\ r[1] = 1 \/ ls[r[1]] # ls[r[1] - 1] + 1
        /\ r[2] = Len(ls) \/ ls[r[2] + 1] # ls[r[2]] + 1}

\* the tokens of the maximal runs, in the order of the list
RunTokens(ls) ==
    LET found == MaximalRuns(ls)
        nth(n) == CHOOSE r \in found :
                      Cardinality({q \in found : q[1] < r[1]}) = n - 1
        token(r) == IF r[1] = r[2] THEN NumberToString(ls[r[1]])
                    ELSE NumberToString(ls[r[1]]) \o <<"-">>
                             \o NumberToString(ls[r[2]])
    IN  [n \in 1..Cardinality(found) |-> token(nth(n))]

ExampleLines == <<1, 2, 3, 7, 9, 10>>
ExampleText  == <<"1", "-", "3", ",", "7", ",", "9", "-", "1", "0">>

\* C9: compressLines returns the comma-joined tokens of the maximal runs of
\* consecutive integers, in order ("n" for a run of one, "start-end" for a
\* longer one); [] gives "" and [1,2,3,7,9,10] gives "1-3,7,9-10".
C9_CompressIsMaximalRuns ==
    pc = "done" /\ text # <<>> =>
        /\ text.renderer = Join(RunTokens(lines), <<",">>)
        /\ text.printTree = Join(RunTokens(lines), <<",">>)
        /\ lines = <<>> => text.renderer = <<>>
        /\ lines = ExampleLines => text.renderer = ExampleText

C9_Witness ==
    /\ pc = "done"
    /\ lines = ExampleLines
    /\ text # <<>>
    /\ text.renderer = ExampleText

\* the number written by a string of decimal digits
RECURSIVE ParseNat(_)
ParseNat(str) ==
    IF Len(str) = 0 THEN 0
    ELSE 10 * ParseNat(SubSeq(str, 1, Len(str) - 1))
         + (CHOOSE d \in 0..9 : DigitChar[d + 1] = str[Len(str)])

\* "s-e" to s, s+1, ..., e and "n" to n
ExpandToken(tok) ==
    LET ends == Split(tok, "-")
    IN  IF Len(ends) = 1 THEN <<ParseNat(ends[1])>>
        ELSE LET s == ParseNat(ends[1])
                 e == ParseNat(ends[2])
             IN  [k \in 1..(e - s + 1) |-> s + k - 1]

\* the expansion of every token of a compressed string, in order
Expand(str) ==
    IF Len(str) = 0 THEN <<>>
    ELSE LET toks == Split(str, ",")
         IN  Concat([k \in 1..Len(toks) |-> ExpandToken(toks[k])])

\* C10: for every ascending list of distinct positive integers, expanding the
\* tokens of compressLines(lines) in order reproduces exactly lines.
C10_CompressIsLossless ==
    pc = "done" /\ text # <<>> /\ (\A i \in 1..Len(lines) : lines[i] > 0) =>
        Expand(text.renderer) = lines

C10_Witness ==
    /\ pc = "done"
    /\ text # <<>>
    /\ lines = ExampleLines
    /\ Expand(text.renderer) = ExampleLines

(***************************************************************************)
(* Claims about what the builders make of their input.                     *)
(***************************************************************************)
\* C11: a coverage report without package entries gives a root whose four
\* counters are 0, not a null result, and cmdCoverage does not return a code
\* other than 0 because of it.
C11_EmptyReportIsNotAnError ==
    (/\ pc = "coverage done"
     /\ ~outcome.threw
     /\ world.reportExists
     /\ pkgs = <<>>)
    => /\ root # NullTree
       /\ \A m \in Metrics : Nullish(root[<<>>], m) = 0
       /\ ({"minLines", "minFuncs"} \cap DOMAIN outcome.opts = {}
             => outcome.code = 0)

\* the path of the node a package entry belongs to
PackagePath(pkg) == PartsOf(ReplaceAll(pkg.name, ".", "/"))

Prefixes(path) == {SubSeq(path, 1, k) : k \in 0..Len(path)}

Occurrences(seq, x) == Cardinality({i \in 1..Len(seq) : seq[i] = x})

\* the source files of the entries of the report that belong to the node at
\* path, in the order of the report
FilesAt(ps, path) ==
    LET mine == Filter(ps, {i \in 1..Len(ps) : PackagePath(ps[i]) = path})
    IN  Concat([k \in 1..Len(mine) |-> FilesOf(mine[k])])

\* C12: the tree buildCoverageTreeFromJaCoCo returns has exactly one node for
\* every prefix of the path of a package entry, the fullName of a node is its
\* path joined with "/", and the source files of a node are those of all the
\* entries with its path, each as often as the entries list it.
C12_OneNodePerPath ==
    pc = "built" /\ root # NullTree =>
        /\ DOMAIN root =
             UNION {Prefixes(PackagePath(pkgs[i])) : i \in 1..Len(pkgs)}
        /\ \A path \in DOMAIN root :
              /\ root[path].fullName = Join(path, <<"/">>)
              /\ Len(path) > 0 => root[path].name = path[Len(path)]
              /\ \A i, j \in 1..Len(root[path].children) :
                    root[path].children[i] = root[path].children[j] => i = j
              /\ {Append(path, root[path].children[i]) :
                     i \in 1..Len(root[path].children)}
                   = ChildPaths(root, path)
              /\ Len(root[path].sourcefile) = Len(FilesAt(pkgs, path))
              /\ \A k \in 1..Len(root[path].sourcefile) :
                    Occurrences(root[path].sourcefile, root[path].sourcefile[k])
                      = Occurrences(FilesAt(pkgs, path), root[path].sourcefile[k])

\* two entries for the same nested package, both with source files
C12_Witness ==
    /\ pc = "built"
    /\ Len(pkgs) = 2
    /\ pkgs[1].name = <<"a", ".", "b">>
    /\ pkgs[2].name = <<"a", ".", "b">>
    /\ Len(pkgs[1].sourcefile) > 0
    /\ Len(pkgs[2].sourcefile) > 0
    /\ Len(root[<<(<<"a">>), (<<"b">>)>>].sourcefile)
         = Len(pkgs[1].sourcefile) + Len(pkgs[2].sourcefile)

\* the cases buildTestsTree reads from a directory entry, each with its suite
CasesOfFile(f) ==
    IF ~endsWith(f.name, <<".", "x", "m", "l">>) \/ ~f.isFile \/ ~f.parses
    THEN <<>>
    ELSE LET suites == normalizeSuites(f.data)
         IN  Concat([k \in 1..Len(suites) |->
                        [j \in 1..Len(normalizeCases(suites[k])) |->
                            [s |-> suites[k],
                             tc |-> normalizeCases(suites[k])[j]]]])

\* ... and from the whole directory, in the order they are met
Ingested(d) == Concat([i \in 1..Len(d.files) |-> CasesOfFile(d.files[i])])

\* the case nodes of the cases of one class name, in the order they are met
CasesOfClass(all, classname) ==
    LET mine == Filter(all, {n \in 1..Len(all) :
                               ClassNameOf(all[n].s, all[n].tc) = classname})
    IN  [k \in 1..Len(mine) |-> CaseNode(mine[k].tc)]

\* the package path a class name stands for: the segments before its last dot
PathOfClass(classname) ==
    IF lastIndexOf(classname, ".") = 0 THEN <<>>
    ELSE LET parts == Split(SubSeq(classname, 1,
                                   lastIndexOf(classname, ".") - 1), ".")
         IN  Filter(parts, {i \in 1..Len(parts) : parts[i] # <<>>})

\* C13: in the tree buildTestsTree returns, the cases of one class name are
\* in one class entry, under the package node of the name (the root for a
\* name without a dot), and the cases of that entry are exactly those cases,
\* in the order they were met across suites and files; there is no other
\* class entry.
C13_OneEntryPerClass ==
    pc = "built" /\ tests # NullTree =>
        /\ \A n \in 1..Len(Ingested(dir)) :
              LET classname == ClassNameOf(Ingested(dir)[n].s, Ingested(dir)[n].tc)
                  path      == PathOfClass(classname)
                  simple    == SubSeq(classname, lastIndexOf(classname, ".") + 1,
                                      Len(classname))
              IN  /\ path \in DOMAIN tests
                  /\ Cardinality({i \in 1..Len(tests[path].classes) :
                                    tests[path].classes[i].name = simple}) = 1
                  /\ \A i \in 1..Len(tests[path].classes) :
                        tests[path].classes[i].name = simple =>
                            /\ tests[path].classes[i].fullName = classname
                            /\ [k \in 1..Len(tests[path].classes[i].cases) |->
                                  [f \in {"name", "status"} |->
                                      tests[path].classes[i].cases[k][f]]]
                                 = [k \in 1..Len(CasesOfClass(Ingested(dir), classname)) |->
                                      [f \in {"name", "status"} |->
                                          CasesOfClass(Ingested(dir), classname)[k][f]]]
        /\ \A path \in DOMAIN tests : \A i \in 1..Len(tests[path].classes) :
              \E n \in 1..Len(Ingested(dir)) :
                  ClassNameOf(Ingested(dir)[n].s, Ingested(dir)[n].tc)
                    = tests[path].classes[i].fullName

\* a class whose three cases come from two files
C13_Witness ==
    /\ pc = "built"
    /\ tests # NullTree
    /\ Len(dir.files) = 2
    /\ <<(<<"a">>)>> \in DOMAIN tests
    /\ \E i \in 1..Len(tests[<<(<<"a">>)>>].classes) :
          /\ tests[<<(<<"a">>)>>].classes[i].name = <<"B">>
          /\ Len(tests[<<(<<"a">>)>>].classes[i].cases) = 3
          /\ tests[<<(<<"a">>)>>].classes[i].cases[1].name = <<"t", "1">>

(***************************************************************************)
(* Claims about the printers.                                              *)
(***************************************************************************)
\* the places of the lines of one kind in the text written
LinesOfKind(kind) == {i \in DOMAIN stdout : stdout[i].kind = kind}

OutcomePrinted == pc = "printed" /\ tests # NullTree

\* the depth of a package line: the root and its children have no prefix
DepthOfLine(line) ==
    IF line.bold THEN 0 ELSE Len(line.prefix) + 1

\* the line of the package at a path is written before place c
PackageShownBefore(path, c) ==
    \E p \in LinesOfKind("package") :
        /\ p < c
        /\ stdout[p].name = tests[path].name
        /\ DepthOfLine(stdout[p]) = Len(path)

\* a case is written under the line of its class, and that under the lines
\* of the packages of the path
CaseShown(path, cls, t) ==
    \E k \in LinesOfKind("case"), c \in LinesOfKind("class") :
        /\ c < k
        /\ stdout[k].name = t.name
        /\ stdout[c].name = cls.name
        /\ Len(stdout[c].prefix) = Len(path)
        /\ \A m \in (c + 1)..(k - 1) : stdout[m].kind \in {"case", "detail"}
        /\ \A n \in 0..Len(path) : PackageShownBefore(SubSeq(path, 1, n), c)

\* C14: with failuresOnly the outcome printer writes the line of a package
\* other than the root, or of a class, only if its failed count is above 0,
\* and the line of a case only if the case failed; with the cases included
\* every failed case is written under its class and under every package of
\* its path, and a package without a failed case below it has no line.
C14_FailuresOnlyShowsTheFailures ==
    (OutcomePrinted /\ Flag(printOpts, "failuresOnly"))
    => /\ \A i \in LinesOfKind("package") :
             ~stdout[i].bold => stdout[i].counts.failed > 0
       /\ \A i \in LinesOfKind("class") : stdout[i].counts.failed > 0
       /\ \A i \in LinesOfKind("case") : stdout[i].status = "failed"
       /\ Cardinality(LinesOfKind("package"))
            = Cardinality({path \in DOMAIN tests :
                             path = <<>> \/ tests[path].counts.failed > 0})
       /\ Flag(printOpts, "includeTests")
          => \A path \in DOMAIN tests :
               \A c \in 1..Len(tests[path].classes) :
                 \A j \in 1..Len(tests[path].classes[c].cases) :
                   tests[path].classes[c].cases[j].status = "failed"
                   => CaseShown(path, tests[path].classes[c],
                                tests[path].classes[c].cases[j])

\* a failed case is written, and a package and a class without one are not
C14_Witness ==
    /\ OutcomePrinted
    /\ Flag(printOpts, "failuresOnly")
    /\ Flag(printOpts, "includeTests")
    /\ LinesOfKind("case") # {}
    /\ \E path \in DOMAIN tests :
          /\ Len(path) = 2
          /\ tests[path].counts.failed = 0
          /\ tests[path].counts.skipped > 0
    /\ \E path \in DOMAIN tests :
          \E c \in 1..Len(tests[path].classes) :
             /\ tests[path].classes[c].counts.failed > 0
             /\ tests[path].classes[c].counts.passed > 0

CoveragePrinted == pc = "printed" /\ root # NullTree

\* the source files of a tree in the order of the walk: a node's files, then
\* its children
RECURSIVE FilesInOrder(_, _)
FilesInOrder(tree, path) ==
    tree[path].sourcefile
    \o Concat([i \in 1..Len(tree[path].children) |->
                  FilesInOrder(tree, Append(path, tree[path].children[i]))])

\* the lines of one kind in the text written, in their order
LinesShown(kind) == Filter(stdout, LinesOfKind(kind))

\* the mode the printer was asked for; 'auto' when none was given
ModeAsked ==
    IF "uncovered" \in DOMAIN printOpts THEN printOpts.uncovered ELSE <<"a", "u", "t", "o">>

\* the file's function percentage or line percentage is below 100
BelowFull(sf) ==
    \/ NearestPct(sf.funcsCovered, sf.funcsMissed) < 100
    \/ NearestPct(sf.linesCovered, sf.linesMissed) < 100

\* the lines shown are those of the files, and each has a token or not as
\* the policy says
TokensFollowPolicy(shown, files) ==
    /\ Len(shown) = Len(files)
    /\ \A k \in 1..Len(shown) :
          /\ shown[k].name = files[k].name
          /\ shown[k].uncovered # <<>>
             <=> /\ Len(files[k].uncoveredLines) > 0
                 /\ \/ ModeAsked = <<"a", "l", "l">>
                    \/ ModeAsked = <<"a", "u", "t", "o">> /\ BelowFull(files[k])
          /\ shown[k].uncovered # <<>>
             => shown[k].uncovered
                  = <<",", " ">> \o compressLines(files[k].uncoveredLines)

\* C15: the coverage printer writes one line per source file, and the line
\* carries a range token if and only if the file's uncoveredLines is not empty
\* and the mode is 'all', or 'auto' with the function or the line percentage
\* below 100; so never in mode 'none', and a file with missed lines and no
\* uncovered line numbers has a line without a token.
C15_RangeTokenPolicy ==
    CoveragePrinted
    => TokensFollowPolicy(LinesShown("file"), FilesInOrder(root, <<>>))

\* in mode 'auto': a file with a token, a fully covered file with an uncovered
\* line number and no token, and a file with missed lines and no line numbers
C15_Witness ==
    /\ CoveragePrinted
    /\ ModeAsked = <<"a", "u", "t", "o">>
    /\ \E k \in 1..Len(LinesShown("file")) :
          LinesShown("file")[k].uncovered # <<>>
    /\ \E k \in 1..Len(LinesShown("file")) :
          /\ LinesShown("file")[k].uncovered = <<>>
          /\ ~BelowFull(FilesInOrder(root, <<>>)[k])
          /\ Len(FilesInOrder(root, <<>>)[k].uncoveredLines) > 0
    /\ \E k \in 1..Len(LinesShown("file")) :
          /\ LinesShown("file")[k].uncovered = <<>>
          /\ FilesInOrder(root, <<>>)[k].linesMissed > 0
          /\ FilesInOrder(root, <<>>)[k].uncoveredLines = <<>>

\* C16: the printers write leaf lines (the lines of source files in the
\* coverage tree, of test cases in the outcome tree) only when the options ask
\* for the leaves; with the default options there are package and class lines
\* only.
C16_LeafLinesOnlyOnRequest ==
    pc = "printed"
    => /\ LinesOfKind("case") # {} => Flag(printOpts, "includeTests")
       /\ LinesOfKind("file") # {} => Flag(printOpts, "includeLeaves")
       /\ printOpts = <<>>
          => LinesOfKind("case") \cup LinesOfKind("file") = {}

\* the characters of the names by ascending UTF-16 code unit
CodeUnitOrder == <<".", "/", "A", "B", "a", "b", "k", "n", "o", "u", "w">>

CodeUnit(ch) == CHOOSE k \in 1..Len(CodeUnitOrder) : CodeUnitOrder[k] = ch

\* a < b for strings: case-sensitive, code unit by code unit
RECURSIVE LexLess(_, _, _)
LexLess(a, b, i) ==
    IF i > Len(b) THEN FALSE
    ELSE IF i > Len(a) THEN TRUE
    ELSE IF a[i] # b[i] THEN CodeUnit(a[i]) < CodeUnit(b[i])
    ELSE LexLess(a, b, i + 1)

\* C17: after the aggregation the children of every node of the coverage tree
\* iterate in ascending order of their names, and their lines are written in
\* that order, whatever the order of the package entries of the report.
C17_ChildrenAscendByName ==
    (pc \in {"built", "printed"} /\ root # NullTree)
    => /\ \A path \in DOMAIN root :
            \A i, j \in 1..Len(root[path].children) :
               i < j => LexLess(root[path].children[i],
                                root[path].children[j], 1)
       /\ pc = "printed"
          => \A i, j \in LinesOfKind("package") :
                (/\ i < j
                 /\ DepthOfLine(stdout[i]) = 1
                 /\ DepthOfLine(stdout[j]) = 1)
                => LexLess(stdout[i].name, stdout[j].name, 1)

\* the <testcase> elements of one class name, in the order they are met
ElementsOfClass(all, classname) ==
    LET mine == Filter(all, {n \in 1..Len(all) :
                               ClassNameOf(all[n].s, all[n].tc) = classname})
    IN  [k \in 1..Len(mine) |-> mine[k].tc]

\* the status of a <testcase> by its markers: the child elements <failure>,
\* <error> and <skipped>, and the attribute status="skipped"
StatusByMarkers(tc) ==
    IF {"failure", "error"} \cap DOMAIN tc # {} THEN "failed"
    ELSE IF \/ "skipped" \in DOMAIN tc
            \/ ("status" \in DOMAIN tc
                /\ tc.status = <<"s", "k", "i", "p", "p", "e", "d">>)
    THEN "skipped"
    ELSE "passed"

\* C18: every case of the tree has one status: failed when its element has a
\* failure or an error marker (a skip marker or not), skipped when it has a
\* skip marker and neither of those, passed otherwise; and failureMessage,
\* failureType and failureDetail are defined on failed cases only.
C18_StatusByMarkers ==
    pc = "built" /\ tests # NullTree =>
        \A path \in DOMAIN tests : \A i \in 1..Len(tests[path].classes) :
            LET cls == tests[path].classes[i]
                tcs == ElementsOfClass(Ingested(dir), cls.fullName)
            IN  /\ Len(cls.cases) = Len(tcs)
                /\ \A k \in 1..Len(cls.cases) :
                      /\ cls.cases[k].status \in Statuses
                      /\ cls.cases[k].status = StatusByMarkers(tcs[k])
                      /\ cls.cases[k].status # "failed"
                         => DOMAIN cls.cases[k]
                              \cap {"failureMessage", "failureType",
                                    "failureDetail"} = {}

\* the report files of a listing that are read: regular files named *.xml
\* that parse
Readable(files) ==
    Filter(files, {i \in 1..Len(files) :
                     /\ endsWith(files[i].name, <<".", "x", "m", "l">>)
                     /\ files[i].isFile
                     /\ files[i].parses})

\* a report file of the listing cannot be parsed
HasBadFile(d) ==
    \E i \in 1..Len(d.files) :
        /\ endsWith(d.files[i].name, <<".", "x", "m", "l">>)
        /\ d.files[i].isFile
        /\ ~d.files[i].parses

\* the suites of a report file whose attributes parseJUnitDir reads
SuitesRead(f) ==
    IF "testsuite" \in DOMAIN f.data
    THEN (IF "tests" \in DOMAIN f.data.testsuite
          THEN <<f.data.testsuite>> ELSE <<>>)
    ELSE IF "testsuites" \in DOMAIN f.data THEN f.data.testsuites
    ELSE <<>>

\* the cases of the tree, counted
CasesInTree(tree) ==
    SumOver([path \in DOMAIN tree |->
                SumSeq([i \in 1..Len(tree[path].classes) |->
                           Len(tree[path].classes[i].cases)])],
            DOMAIN tree)

\* C19: a report file that cannot be parsed is skipped and the build goes on:
\* the tree of buildTestsTree holds the cases of all the files that can be
\* read and is the tree of the listing without the bad file, and the totals
\* of parseJUnitDir are those of the suites of the files that can be read,
\* wherever the bad file stands in the listing.
C19_BadFileIsSkipped ==
    /\ (pc = "built" /\ dir.exists /\ HasBadFile(dir))
       => /\ tests # NullTree
          /\ CasesInTree(tests)
               = SumSeq([i \in 1..Len(Readable(dir.files)) |->
                            Len(CasesOfFile(Readable(dir.files)[i]))])
          /\ tests = buildTestsTree([dir EXCEPT !.files = Readable(dir.files)])
    /\ (summary # <<>> /\ HasBadFile(dir))
       => /\ summary.tests
               = SumSeq([i \in 1..Len(Readable(dir.files)) |->
                    SumSeq([k \in 1..Len(SuitesRead(Readable(dir.files)[i])) |->
                       AttrOr0(SuitesRead(Readable(dir.files)[i])[k], "tests")])])
          /\ summary = parseJUnitDir([dir EXCEPT !.files = Readable(dir.files)])

\* the bad file stands before a file of three cases of a suite with totals,
\* and the cases and the totals are there
C19_Witness ==
    /\ pc = "built"
    /\ summary # <<>>
    /\ Len(dir.files) = 2
    /\ ~dir.files[1].parses /\ dir.files[1].isFile
    /\ CasesInTree(tests) = 3
    /\ summary.tests = 3 /\ summary.skipped = 2

\* the lines with a connector: the entries under the nodes
IsEntry(i) ==
    /\ stdout[i].kind # "header"
    /\ stdout[i].branch \in {LastBranch, MidBranch}

\* the level of a line of the tree: the units of its prefix
Level(i) == Len(stdout[i].prefix)

\* line j is below the entry of line i: every line from i on to j is deeper
Below(i, j) ==
    /\ i < j
    /\ \A m \in (i + 1)..j : Level(m) > Level(i)

\* another entry of the same node is written after the lines below entry i
HasLaterSibling(i) ==
    \E k \in DOMAIN stdout :
        /\ i < k
        /\ IsEntry(k)
        /\ Level(k) = Level(i)
        /\ \A m \in (i + 1)..(k - 1) : Level(m) > Level(i)

\* C20: in the text of either printer, among the entries written under a node
\* the last one has the last-branch connector and the earlier ones the
\* continuing-branch connector, and a line below an entry has, at the level
\* of the entry, the vertical continuation if the entry is not the last and
\* blanks if it is; also when failuresOnly leaves entries out.
C20_ConnectorsMatchThePosition ==
    pc = "printed"
    => /\ \A i \in DOMAIN stdout :
            IsEntry(i)
            => /\ stdout[i].branch
                    = IF HasLaterSibling(i) THEN MidBranch ELSE LastBranch
               /\ \A j \in DOMAIN stdout :
                     Below(i, j)
                     => /\ SubSeq(stdout[j].prefix, 1, Level(i))
                             = stdout[i].prefix
                        /\ stdout[j].prefix[Level(i) + 1]
                             = IF HasLaterSibling(i) THEN Bar ELSE Blank
       /\ root # NullTree
          => Cardinality({i \in DOMAIN stdout : IsEntry(i) /\ Level(i) = 0})
               = Len(root[<<>>].sourcefile) + Len(root[<<>>].children)
       /\ (tests # NullTree /\ ~Flag(printOpts, "failuresOnly"))
          => Cardinality({i \in DOMAIN stdout : IsEntry(i) /\ Level(i) = 0})
               = Len(tests[<<>>].classes) + Len(tests[<<>>].children)

\* with failuresOnly cases are left out, and a class that is not the last
\* entry of its package has the lines of its cases below it
C20_Witness ==
    /\ OutcomePrinted
    /\ Flag(printOpts, "failuresOnly")
    /\ Flag(printOpts, "includeTests")
    /\ Cardinality(LinesOfKind("case")) < CasesInTree(tests)
    /\ \E i \in LinesOfKind("class"), j \in LinesOfKind("case") :
          /\ Below(i, j)
          /\ HasLaterSibling(i)
          /\ stdout[j].prefix[Level(i) + 1] = Bar

\* every file with a missed line and uncovered line numbers has its ranges
MissedLinesAreShown(shown, files) ==
    /\ Len(shown) = Len(files)
    /\ \A k \in 1..Len(shown) :
          (files[k].linesMissed > 0 /\ Len(files[k].uncoveredLines) > 0)
          => shown[k].uncovered
               = <<",", " ">> \o compressLines(files[k].uncoveredLines)

\* C26: in mode 'auto' every source file with at least one missed line and a
\* non-empty uncoveredLines is written with its uncovered-line ranges, whatever
\* its counters are, also when its percentage rounds to 100 (199 covered, 1
\* missed).
C26_AutoShowsEveryMissedLine ==
    (CoveragePrinted /\ ModeAsked = <<"a", "u", "t", "o">>)
    => MissedLinesAreShown(LinesShown("file"), FilesInOrder(root, <<>>))

\* the three counts of a node or of a class, added up
CountOf(node) ==
    node.counts.passed + node.counts.failed + node.counts.skipped

\* the root accounts for the cases met: as many as there are, with the sum
\* of their durations
RootAccountsFor(all) ==
    /\ CountOf(tests[<<>>]) = Len(all)
    /\ tests[<<>>].durationMs
         = SumSeq([n \in 1..Len(all) |-> CaseNode(all[n].tc).durationMs])

\* C23: after buildTestsTree the three counts of the root add up to the number
\* of <testcase> entries met in the files that parse, the three counts of
\* every class add up to the length of its case list, and the duration of the
\* root is the sum of the durations of the cases met.
C23_CasesAreConserved ==
    pc = "built" /\ tests # NullTree =>
        /\ RootAccountsFor(Ingested(dir))
        /\ \A path \in DOMAIN tests : \A i \in 1..Len(tests[path].classes) :
              CountOf(tests[path].classes[i])
                = Len(tests[path].classes[i].cases)

\* five cases or more from two files, of the three statuses, in classes under
\* the root and under packages
C23_Witness ==
    /\ pc = "built"
    /\ tests # NullTree
    /\ Len(dir.files) = 2
    /\ Len(Ingested(dir)) >= 5
    /\ \A k \in Statuses : tests[<<>>].counts[k] > 0
    /\ tests[<<>>].durationMs > 0
    /\ Len(tests[<<>>].classes) > 0
    /\ Len(tests[<<>>].children) > 0

\* C21: `moka test` takes `--uncovered <mode>` with the mode as the next
\* argument, as its usage text says: the parsed uncovered mode is the mode
\* given, it is handed on to the coverage command, and the mode word is not
\* among the test patterns.
C21_TestTakesUncoveredMode ==
    (pc = "test done" /\ ~outcome.threw)
    => \A i \in 1..(Len(argv) - 1) :
          (argv[i] = <<"-", "-", "u", "n", "c", "o", "v", "e", "r", "e", "d">> /\ argv[i + 1] \in UncoveredModes)
          => /\ outcome.opts.uncovered = argv[i + 1]
             /\ \A k \in 1..Len(outcome.opts.patterns) :
                   outcome.opts.patterns[k] # argv[i + 1]
             /\ outcome.opts.coverage
                => outcome.covOpts.uncovered = argv[i + 1]

\* the source files of the entries whose name is the path of a node, as the
\* legacy builder maps them, in the order of the entries
LegacyFilesAt(ps, path) ==
    LET mine == Filter(ps, {i \in 1..Len(ps) : Split(ps[i].name, "/") = path})
    IN  Concat([k \in 1..Len(mine) |->
                   [j \in 1..Len(mine[k].sourcefile) |->
                       LegacySourceFileOf(mine[k].sourcefile[j])]])

\* the files a node holds are the files given, each as often
SameFiles(held, given) ==
    /\ Len(held) = Len(given)
    /\ \A k \in 1..Len(given) :
          Occurrences(held, given[k]) = Occurrences(given, given[k])

\* C22: buildPackageTree keeps every record: after any list of package
\* entries, two of one name included, every source file of every entry is on
\* the node at the path of its package and is counted in the sums of the root;
\* a later entry does not replace what an earlier one attached.
C22_LegacyBuilderKeepsEveryFile ==
    pc = "built"
    => /\ \A i \in 1..Len(pkgs) : Split(pkgs[i].name, "/") \in DOMAIN root
       /\ \A path \in DOMAIN root :
             SameFiles(root[path].sourcefile, LegacyFilesAt(pkgs, path))
       /\ \A m \in Metrics :
             root[<<>>][m]
               = SumOver([path \in DOMAIN root |->
                            SumFiles(LegacyFilesAt(pkgs, path), 1,
                                     [n \in Metrics |-> 0])[m]],
                         DOMAIN root)

(***************************************************************************)
(* Claims about the spinner.                                               *)
(***************************************************************************)
Stops == {"stop", "succeed", "fail"}

\* the positions of the calls made to a spinner, ticks left out
CallsTo(who) ==
    {i \in 1..Len(trace) : trace[i].who = who /\ trace[i].op \in Stops \cup {"start"}}

LastCallTo(who) == CHOOSE i \in CallsTo(who) : \A j \in CallsTo(who) : j <= i

\* C24: whatever calls are made, each spinner has at most one interval timer
\* registered and it is the one the spinner holds; a spinner whose last call
\* was stop, succeed or fail is not active; a tick that follows a stop follows
\* a later start; and the spinner of cmdTest and the one of cmdCoverage's
\* report generation are inactive once the block is left, however runCmd ended
C24_SpinnerLifecycle ==
    spinners # <<>>
    => /\ \A who \in DOMAIN spinners :
            /\ Cardinality({iv \in intervals : iv.of = who}) <= 1
            /\ \A iv \in intervals :
                  iv.of = who => spinners[who] # NoSpinner
                                 /\ spinners[who].timer = iv.handle
            /\ (CallsTo(who) # {} /\ trace[LastCallTo(who)].op \in Stops)
               => (spinners[who] = NoSpinner \/ ~isActive(spinners[who]))
            /\ \A i, j \in 1..Len(trace) :
                  (/\ i < j /\ trace[i].who = who /\ trace[j].who = who
                   /\ trace[i].op \in Stops /\ trace[j].op = "tick")
                  => \E k \in (i + 1)..(j - 1) :
                        trace[k].who = who /\ trace[k].op = "start"
       /\ pc \in {"coverage: after", "test: finally", "left"}
          => (spinners["coverage"] = NoSpinner \/ ~isActive(spinners["coverage"]))
       /\ pc = "left"
          => /\ spinners["test"] = NoSpinner \/ ~isActive(spinners["test"])
             /\ intervals = {}

\* cmdTest has returned after its runCmd resolved and the one of the report
\* generation threw, and the timers of both spinners had fired
C24_Witness ==
    /\ spinners # <<>>
    /\ pc = "left" /\ caller.driver = "test"
    /\ \E i, j, k \in 1..Len(trace) :
          /\ i < j /\ j < k
          /\ trace[i] = [who |-> "test", op |-> "tick", wrote |-> <<"f1">>]
          /\ trace[j] = [who |-> "coverage", op |-> "tick", wrote |-> <<"f1">>]
          /\ trace[k].who = "coverage" /\ trace[k].op = "runCmd throws"

(***************************************************************************)
(* Claims about runCmd.                                                    *)
(***************************************************************************)
Piped == pc # "start" /\ runOpts # <<>> /\ ~runOpts.inherit

SilentMode == runOpts.forwardOutput = "false" /\ runOpts.filter = "undefined"

\* C25: with piped output, runCmd has resolved only if the child has exited
\* and each of the two consumers is done, having read every chunk of its
\* stream after the stream ended; and in silent mode nothing is written to the
\* parent's stdout or stderr
C25_ResolvesAfterExitAndDrain ==
    Piped
    => /\ pc = "resolved"
          => /\ proc.exited
             /\ result.code = proc.code
             /\ \A w \in Streams :
                   /\ consumes[w] = "done"
                   /\ ~proc.open[w]
                   /\ pipes[w] = <<>>
       /\ SilentMode => written = <<>>

\* runCmd has resolved in silent mode after the child wrote chunks to both
\* of its streams
C25_Witness ==
    /\ Piped /\ SilentMode
    /\ pc = "resolved"
    /\ \A w \in Streams : proc.produced[w] >= 2

====
